---- MODULE Spec2Model ----
(***************************************************************************)
(* godb: in-memory tabular store.  Table registry, per-table row storage   *)
(* with hash indexes, constraint checker and CRUD entry points.            *)
(*                                                                         *)
(* Row positions are 0-based as in the source; rows are kept in a TLA+     *)
(* sequence, so the row at position p is rows[p + 1].                      *)
(***************************************************************************)
EXTENDS Integers, Sequences, FiniteSets, TLC

\* ------------------------------------------------------------------ bounds
\* Integer payloads of the values callers supply: 1..MaxVal.
MaxVal == 2
\* Cap on the number of rows a table may hold in the model.
MaxRows == 3

\* ------------------------------------------------------------------ values
\* A Go interface{} value: a dynamic type tag and a payload.  nil is NULL.
NULL == [t |-> "nil", v |-> 0]
IntV(n) == [t |-> "int", v |-> n]

InputValues == {IntV(n) : n \in 1..MaxVal} \cup {NULL}

\* ------------------------------------------------------------------ rows
\* Row is map[string]interface{}: a function from the columns present to
\* values.  Get returns (value, ok); a missing key yields (nil, false).
RowHas(row, column) == column \in DOMAIN row
RowGet(row, column) == IF column \in DOMAIN row THEN row[column] ELSE NULL

\* ------------------------------------------------------------------ schema
Column(name, type, pk, unique, notNull) ==
  [Name |-> name, Type |-> type, PrimaryKey |-> pk, Unique |-> unique,
   NotNull |-> notNull]

\* users(id INT PRIMARY KEY, name STRING NOT NULL, email STRING UNIQUE)
UsersSchema ==
  << Column("id", "INT", TRUE, FALSE, FALSE),
     Column("name", "STRING", FALSE, FALSE, TRUE),
     Column("email", "STRING", FALSE, TRUE, FALSE) >>

TableNames == {"users", "posts"}
ColumnNames == {"id", "name", "email"}

\* ------------------------------------------------------------------ index
\* Index.data is map[interface{}][]int: a function from the values present
\* to the sequence of row positions.
NewIndex == <<>>

IndexAdd(data, value, rowIndex) ==
  IF value = NULL THEN data
  ELSE IF value \in DOMAIN data
       THEN [data EXCEPT ![value] = Append(@, rowIndex)]
       ELSE data @@ (value :> <<rowIndex>>)

\* Remove that keeps the entry of a value whose last position it removed.
IndexRemove_KeepEmpty(data, value, rowIndex) ==
  IF value = NULL THEN data
  ELSE IF value \notin DOMAIN data THEN data
  ELSE [data EXCEPT ![value] = SelectSeq(@, LAMBDA i : i # rowIndex)]

IndexRemove(data, value, rowIndex) ==
  IF value = NULL THEN data
  ELSE IF value \notin DOMAIN data THEN data
  ELSE LET newIndices == SelectSeq(data[value], LAMBDA i : i # rowIndex)
       IN  IF Len(newIndices) = 0
           THEN [k \in DOMAIN data \ {value} |-> data[k]]
           ELSE [data EXCEPT ![value] = newIndices]

IndexLookup(data, value) ==
  IF value = NULL THEN <<>>
  ELSE IF value \in DOMAIN data THEN data[value] ELSE <<>>

IndexUpdate(data, oldValue, newValue, rowIndex) ==
  IndexAdd(IndexRemove(data, oldValue, rowIndex), newValue, rowIndex)

IndexHas(data, value) ==
  IF value = NULL THEN FALSE ELSE value \in DOMAIN data

\* ------------------------------------------------------------------ table
hasColumn(t, columnName) ==
  \E i \in 1..Len(t.schema) : t.schema[i].Name = columnName

\* Index built without the row at the starting position.
BuildIndex_SkipFirst(rows, columnName, rowIdx) ==
  LET RECURSIVE build(_, _)
      build(data, i) ==
        IF i > Len(rows) THEN data
        ELSE build(IF RowHas(rows[i], columnName)
                   THEN IndexAdd(data, rows[i][columnName], i - 1)
                   ELSE data, i + 1)
  IN  build(NewIndex, rowIdx + 2)

\* Table.CreateIndex on a table whose column exists: no-op when the index
\* exists, else an index built from the current rows.
BuildIndex(rows, columnName, rowIdx) ==
  LET RECURSIVE build(_, _)
      build(data, i) ==
        IF i > Len(rows) THEN data
        ELSE build(IF RowHas(rows[i], columnName)
                   THEN IndexAdd(data, rows[i][columnName], i - 1)
                   ELSE data, i + 1)
  IN  build(NewIndex, rowIdx + 1)

TableCreateIndex(t, columnName) ==
  IF ~hasColumn(t, columnName) THEN t
  ELSE IF columnName \in DOMAIN t.indexes THEN t
  ELSE [t EXCEPT !.indexes =
          @ @@ (columnName :> BuildIndex(t.rows, columnName, 0))]

NewTable(name, schema) ==
  LET RECURSIVE scan(_, _)
      scan(table, i) ==
        IF i > Len(schema) THEN table
        ELSE LET col == schema[i]
             IN  IF col.PrimaryKey
                 THEN scan(TableCreateIndex(
                             [table EXCEPT !.primaryKey = col.Name], col.Name),
                           i + 1)
                 ELSE IF col.Unique
                 THEN scan(TableCreateIndex(table, col.Name), i + 1)
                 ELSE scan(table, i + 1)
  IN  scan([name |-> name, schema |-> schema, rows |-> <<>>,
            primaryKey |-> "", indexes |-> <<>>], 1)

ScanHas(t, columnName, value) ==
  \E i \in 1..Len(t.rows) :
    RowHas(t.rows[i], columnName) /\ t.rows[i][columnName] = value

hasPrimaryKeyValue(t, value) ==
  IF t.primaryKey = "" THEN FALSE
  ELSE IF t.primaryKey \in DOMAIN t.indexes
       THEN IndexHas(t.indexes[t.primaryKey], value)
       ELSE ScanHas(t, t.primaryKey, value)

\* Mutant: the existence check reads the primary-key index.
hasUniqueValue_KeyIndex(t, columnName, value) ==
  IF t.primaryKey \in DOMAIN t.indexes
  THEN IndexHas(t.indexes[t.primaryKey], value)
  ELSE ScanHas(t, columnName, value)

\* Mutant: the existence check always scans the rows, where nil == nil.
hasUniqueValue_ScanOnly(t, columnName, value) == ScanHas(t, columnName, value)

hasUniqueValue(t, columnName, value) ==
  IF columnName \in DOMAIN t.indexes
  THEN IndexHas(t.indexes[columnName], value)
  ELSE ScanHas(t, columnName, value)

\* addRow, statement by statement: the append, then the index loop.
AppendRow(t, row) == [t EXCEPT !.rows = Append(@, row)]

IndexRow(t, row, rowIndex) ==
  [t EXCEPT !.indexes = [c \in DOMAIN @ |->
                           IF RowHas(row, c) THEN IndexAdd(@[c], row[c], rowIndex)
                           ELSE @[c]]]

\* addRow reading the position after the append.
addRow_IndexAfterAppend(t, row) ==
  IndexRow(AppendRow(t, row), row, Len(t.rows) + 1)

addRow(t, row) == IndexRow(AppendRow(t, row), row, Len(t.rows))

updateRow(t, rowIndex, newRow) ==
  LET oldRow == t.rows[rowIndex + 1]
  IN  [t EXCEPT
         !.indexes = [c \in DOMAIN @ |->
                        IF RowGet(oldRow, c) # RowGet(newRow, c)
                        THEN IndexUpdate(@[c], RowGet(oldRow, c),
                                         RowGet(newRow, c), rowIndex)
                        ELSE @[c]],
         !.rows = [@ EXCEPT ![rowIndex + 1] = newRow]]

\* Mutant: swap-remove that leaves the relocated row indexed at its old
\* position.
deleteRow_StaleMoved(t, rowIndex) ==
  LET row == t.rows[rowIndex + 1]
      removed == [c \in DOMAIN t.indexes |->
                    IF RowHas(row, c)
                    THEN IndexRemove(t.indexes[c], row[c], rowIndex)
                    ELSE t.indexes[c]]
      lastIndex == Len(t.rows) - 1
      rows1 == IF rowIndex # lastIndex
               THEN [t.rows EXCEPT ![rowIndex + 1] = t.rows[lastIndex + 1]]
               ELSE t.rows
  IN  [t EXCEPT !.rows = SubSeq(rows1, 1, lastIndex), !.indexes = removed]

\* Swap-remove that indexes the relocated row at its new position without
\* removing its old position.
deleteRow_MovedAddOnly(t, rowIndex) ==
  LET row == t.rows[rowIndex + 1]
      removed == [c \in DOMAIN t.indexes |->
                    IF RowHas(row, c)
                    THEN IndexRemove(t.indexes[c], row[c], rowIndex)
                    ELSE t.indexes[c]]
      lastIndex == Len(t.rows) - 1
      moved == t.rows[lastIndex + 1]
      rows1 == IF rowIndex # lastIndex
               THEN [t.rows EXCEPT ![rowIndex + 1] = moved] ELSE t.rows
      indexes1 == IF rowIndex # lastIndex
                  THEN [c \in DOMAIN removed |->
                          IF RowHas(moved, c)
                          THEN IndexAdd(removed[c], moved[c], rowIndex)
                          ELSE removed[c]]
                  ELSE removed
  IN  [t EXCEPT !.rows = SubSeq(rows1, 1, lastIndex), !.indexes = indexes1]

\* Removal that closes the gap by moving every later row down one position.
deleteRow_ShiftDown(t, rowIndex) ==
  LET rows1 == [k \in 1..(Len(t.rows) - 1) |->
                  IF k < rowIndex + 1 THEN t.rows[k] ELSE t.rows[k + 1]]
  IN  [t EXCEPT !.rows = rows1,
                !.indexes = [c \in DOMAIN @ |-> BuildIndex(rows1, c, 0)]]

deleteRow(t, rowIndex) ==
  LET row == t.rows[rowIndex + 1]
      removed == [c \in DOMAIN t.indexes |->
                    IF RowHas(row, c)
                    THEN IndexRemove(t.indexes[c], row[c], rowIndex)
                    ELSE t.indexes[c]]
      lastIndex == Len(t.rows) - 1
      moved == t.rows[lastIndex + 1]
      rows1 == IF rowIndex # lastIndex
               THEN [t.rows EXCEPT ![rowIndex + 1] = moved] ELSE t.rows
      indexes1 == IF rowIndex # lastIndex
                  THEN [c \in DOMAIN removed |->
                          IF RowHas(moved, c)
                          THEN IndexAdd(IndexRemove(removed[c], moved[c], lastIndex),
                                        moved[c], rowIndex)
                          ELSE removed[c]]
                  ELSE removed
  IN  [t EXCEPT !.rows = SubSeq(rows1, 1, lastIndex), !.indexes = indexes1]

\* ------------------------------------------------------------------ errors
NoErr == [kind |-> "ok", column |-> ""]
\* The table errors carry the name the caller asked for.
ErrTableNotFound(tableName) ==
  [kind |-> "TableNotFound", column |-> "", table |-> tableName]
ErrTableAlreadyExists(tableName) ==
  [kind |-> "TableAlreadyExists", column |-> "", table |-> tableName]
ErrPrimaryKeyViolation(key) == [kind |-> "PrimaryKeyViolation", column |-> key]
ErrUniqueViolation(column) == [kind |-> "UniqueViolation", column |-> column]
ErrColumnNotFound(column) == [kind |-> "ColumnNotFound", column |-> column]
ErrMissingRequiredColumn(column) ==
  [kind |-> "MissingRequiredColumn", column |-> column]

\* ------------------------------------------------------- constraint checker
\* The position at which a "for _, col := range schema" loop returns: the
\* smallest of the schema positions that violate, or 0 when there is none.
FirstColumn(hits) ==
  IF hits = {} THEN 0 ELSE CHOOSE i \in hits : \A j \in hits : i <= j

\* Phase 3 of both validations: the not-null loop.
\* Mutant: a not-null loop that accepts a key present with a nil value.
CheckNotNull_AbsentOnly(t, row) ==
  LET bad(col) == (col.NotNull \/ col.PrimaryKey) /\ ~RowHas(row, col.Name)
      i == FirstColumn({k \in 1..Len(t.schema) : bad(t.schema[k])})
  IN  IF i = 0 THEN NoErr ELSE ErrMissingRequiredColumn(t.schema[i].Name)

CheckNotNull(t, row) ==
  LET bad(col) == (col.NotNull \/ col.PrimaryKey)
                  /\ (~RowHas(row, col.Name) \/ row[col.Name] = NULL)
      i == FirstColumn({k \in 1..Len(t.schema) : bad(t.schema[k])})
  IN  IF i = 0 THEN NoErr ELSE ErrMissingRequiredColumn(t.schema[i].Name)

\* Mutant: an insert validation that does not look for the key among the
\* stored rows.
ValidateInsert_NoKeyLookup(t, row) ==
  LET dup(col) == col.Unique /\ col.Name # t.primaryKey
                  /\ RowHas(row, col.Name)
                  /\ hasUniqueValue(t, col.Name, row[col.Name])
      u == FirstColumn({k \in 1..Len(t.schema) : dup(t.schema[k])})
  IN  IF t.primaryKey # "" /\ ~RowHas(row, t.primaryKey)
      THEN ErrMissingRequiredColumn(t.primaryKey)
      ELSE IF u # 0 THEN ErrUniqueViolation(t.schema[u].Name)
      ELSE CheckNotNull(t, row)

\* An insert validation that runs its not-null phase before its unique
\* phase.
ValidateInsert_NotNullFirst(t, row) ==
  LET dup(col) == col.Unique /\ col.Name # t.primaryKey
                  /\ RowHas(row, col.Name)
                  /\ hasUniqueValue(t, col.Name, row[col.Name])
      u == FirstColumn({k \in 1..Len(t.schema) : dup(t.schema[k])})
  IN  IF t.primaryKey # "" /\ ~RowHas(row, t.primaryKey)
      THEN ErrMissingRequiredColumn(t.primaryKey)
      ELSE IF t.primaryKey # "" /\ hasPrimaryKeyValue(t, row[t.primaryKey])
      THEN ErrPrimaryKeyViolation(t.primaryKey)
      ELSE IF CheckNotNull(t, row) # NoErr THEN CheckNotNull(t, row)
      ELSE IF u # 0 THEN ErrUniqueViolation(t.schema[u].Name)
      ELSE NoErr

ValidateInsert(t, row) ==
  LET dup(col) == col.Unique /\ col.Name # t.primaryKey
                  /\ RowHas(row, col.Name)
                  /\ hasUniqueValue(t, col.Name, row[col.Name])
      u == FirstColumn({k \in 1..Len(t.schema) : dup(t.schema[k])})
  IN  IF t.primaryKey # "" /\ ~RowHas(row, t.primaryKey)
      THEN ErrMissingRequiredColumn(t.primaryKey)
      ELSE IF t.primaryKey # "" /\ hasPrimaryKeyValue(t, row[t.primaryKey])
      THEN ErrPrimaryKeyViolation(t.primaryKey)
      ELSE IF u # 0 THEN ErrUniqueViolation(t.schema[u].Name)
      ELSE CheckNotNull(t, row)

\* Mutant: an update validation whose not-null phase reads the old row.
ValidateUpdate_OldRowNotNull(t, oldRow, newRow) ==
  LET dup(col) == col.Unique /\ col.Name # t.primaryKey
                  /\ RowHas(newRow, col.Name)
                  /\ RowGet(oldRow, col.Name) # newRow[col.Name]
                  /\ hasUniqueValue(t, col.Name, newRow[col.Name])
      u == FirstColumn({k \in 1..Len(t.schema) : dup(t.schema[k])})
  IN  IF t.primaryKey # ""
         /\ RowGet(oldRow, t.primaryKey) # RowGet(newRow, t.primaryKey)
         /\ hasPrimaryKeyValue(t, RowGet(newRow, t.primaryKey))
      THEN ErrPrimaryKeyViolation(t.primaryKey)
      ELSE IF u # 0 THEN ErrUniqueViolation(t.schema[u].Name)
      ELSE CheckNotNull(t, oldRow)

\* Mutant: an update validation without the unique phase.
ValidateUpdate_NoUniquePhase(t, oldRow, newRow) ==
  IF t.primaryKey # ""
     /\ RowGet(oldRow, t.primaryKey) # RowGet(newRow, t.primaryKey)
     /\ hasPrimaryKeyValue(t, RowGet(newRow, t.primaryKey))
  THEN ErrPrimaryKeyViolation(t.primaryKey)
  ELSE CheckNotNull(t, newRow)

\* An update validation without the primary-key phase.
ValidateUpdate_NoKeyPhase(t, oldRow, newRow) ==
  LET dup(col) == col.Unique /\ col.Name # t.primaryKey
                  /\ RowHas(newRow, col.Name)
                  /\ RowGet(oldRow, col.Name) # newRow[col.Name]
                  /\ hasUniqueValue(t, col.Name, newRow[col.Name])
      u == FirstColumn({k \in 1..Len(t.schema) : dup(t.schema[k])})
  IN  IF u # 0 THEN ErrUniqueViolation(t.schema[u].Name)
      ELSE CheckNotNull(t, newRow)

\* An update validation that looks the new key and unique values up also
\* when they are unchanged.
ValidateUpdate_NoSelfSkip(t, oldRow, newRow) ==
  LET dup(col) == col.Unique /\ col.Name # t.primaryKey
                  /\ RowHas(newRow, col.Name)
                  /\ hasUniqueValue(t, col.Name, newRow[col.Name])
      u == FirstColumn({k \in 1..Len(t.schema) : dup(t.schema[k])})
  IN  IF t.primaryKey # ""
         /\ hasPrimaryKeyValue(t, RowGet(newRow, t.primaryKey))
      THEN ErrPrimaryKeyViolation(t.primaryKey)
      ELSE IF u # 0 THEN ErrUniqueViolation(t.schema[u].Name)
      ELSE CheckNotNull(t, newRow)

ValidateUpdate(t, oldRow, newRow) ==
  LET dup(col) == col.Unique /\ col.Name # t.primaryKey
                  /\ RowHas(newRow, col.Name)
                  /\ RowGet(oldRow, col.Name) # newRow[col.Name]
                  /\ hasUniqueValue(t, col.Name, newRow[col.Name])
      u == FirstColumn({k \in 1..Len(t.schema) : dup(t.schema[k])})
  IN  IF t.primaryKey # ""
         /\ RowGet(oldRow, t.primaryKey) # RowGet(newRow, t.primaryKey)
         /\ hasPrimaryKeyValue(t, RowGet(newRow, t.primaryKey))
      THEN ErrPrimaryKeyViolation(t.primaryKey)
      ELSE IF u # 0 THEN ErrUniqueViolation(t.schema[u].Name)
      ELSE CheckNotNull(t, newRow)

\* ------------------------------------------------------------- conditions
\* *Condition; the nil pointer is NoCond.
NoCond == [Column |-> "", Operator |-> "nil", Value |-> NULL]
Cond(column, operator, value) ==
  [Column |-> column, Operator |-> operator, Value |-> value]

compareValues(a, b) ==
  IF (a.t = "int" /\ b.t = "int") \/ (a.t = "string" /\ b.t = "string")
  THEN IF a.v < b.v THEN -1 ELSE IF a.v > b.v THEN 1 ELSE 0
  ELSE 0

evaluateCondition(row, cond) ==
  IF ~RowHas(row, cond.Column) THEN FALSE
  ELSE LET value == row[cond.Column]
       IN  CASE cond.Operator = "=" -> value = cond.Value
             [] cond.Operator = "!=" -> value # cond.Value
             [] cond.Operator = ">" -> compareValues(value, cond.Value) > 0
             [] cond.Operator = "<" -> compareValues(value, cond.Value) < 0
             [] cond.Operator = ">=" -> compareValues(value, cond.Value) >= 0
             [] cond.Operator = "<=" -> compareValues(value, cond.Value) <= 0
             [] OTHER -> FALSE

Matches(row, cond) == cond = NoCond \/ evaluateCondition(row, cond)

\* Overlay that starts from an empty row instead of a copy of the old one.
Overlay_UpdatesOnly(row, updates) == updates

\* --------------------------------------------------------- CRUD on a table
\* Each returns the table after the call with the call's results.
\* newRow := row.Copy(); for col, val := range updates { newRow.Set(col, val) }
Overlay(row, updates) ==
  [c \in DOMAIN row \cup DOMAIN updates |->
     IF c \in DOMAIN updates THEN updates[c] ELSE row[c]]

InsertInto(t, row) ==
  LET err == ValidateInsert(t, row)
  IN  IF err # NoErr THEN [table |-> t, n |-> 0, err |-> err]
      ELSE [table |-> addRow(t, row), n |-> 1, err |-> NoErr]

\* Update returning the table as it was at the start of the call when a row
\* fails validation.
UpdateIn_Rollback(t, updates, cond) ==
  LET RECURSIVE loop(_, _, _)
      loop(table, i, rowsAffected) ==
        IF ~(i < Len(table.rows))
        THEN [table |-> table, n |-> rowsAffected, err |-> NoErr]
        ELSE LET row == table.rows[i + 1]
                 newRow == Overlay(row, updates)
                 err == ValidateUpdate(table, row, newRow)
             IN  IF ~Matches(row, cond) THEN loop(table, i + 1, rowsAffected)
                 ELSE IF err # NoErr
                 THEN [table |-> t, n |-> rowsAffected, err |-> err]
                 ELSE loop(updateRow(table, i, newRow), i + 1, rowsAffected + 1)
  IN  loop(t, 0, 0)

UpdateIn(t, updates, cond) ==
  LET RECURSIVE loop(_, _, _)
      loop(table, i, rowsAffected) ==
        IF ~(i < Len(table.rows))
        THEN [table |-> table, n |-> rowsAffected, err |-> NoErr]
        ELSE LET row == table.rows[i + 1]
                 newRow == Overlay(row, updates)
                 err == ValidateUpdate(table, row, newRow)
             IN  IF ~Matches(row, cond) THEN loop(table, i + 1, rowsAffected)
                 ELSE IF err # NoErr
                 THEN [table |-> table, n |-> rowsAffected, err |-> err]
                 ELSE loop(updateRow(table, i, newRow), i + 1, rowsAffected + 1)
  IN  loop(t, 0, 0)

\* Delete's loop run from the first position to the last.
DeleteFrom_Forward(t, cond) ==
  LET RECURSIVE loop(_, _, _)
      loop(table, i, rowsAffected) ==
        IF ~(i < Len(table.rows))
        THEN [table |-> table, n |-> rowsAffected, err |-> NoErr]
        ELSE IF ~Matches(table.rows[i + 1], cond)
        THEN loop(table, i + 1, rowsAffected)
        ELSE loop(deleteRow(table, i), i + 1, rowsAffected + 1)
  IN  loop(t, 0, 0)

DeleteFrom(t, cond) ==
  LET RECURSIVE loop(_, _, _)
      loop(table, i, rowsAffected) ==
        IF ~(i >= 0)
        THEN [table |-> table, n |-> rowsAffected, err |-> NoErr]
        ELSE IF ~Matches(table.rows[i + 1], cond)
        THEN loop(table, i - 1, rowsAffected)
        ELSE loop(deleteRow(table, i), i - 1, rowsAffected + 1)
  IN  loop(t, Len(t.rows) - 1, 0)

\* projectRow that sets every requested column, nil for the ones the row
\* does not have.
projectRow_SetMissing(row, columns) ==
  IF Len(columns) = 0 THEN row
  ELSE [c \in {columns[k] : k \in 1..Len(columns)} |-> RowGet(row, c)]

\* ------------------------------------------------------------------ select
\* projectRow: the whole row for an empty column list, else the requested
\* columns the row has.
projectRow(row, columns) ==
  IF Len(columns) = 0 THEN row
  ELSE [c \in {columns[k] : k \in 1..Len(columns)} \cap DOMAIN row |-> row[c]]

\* Select's candidate positions: the index bucket on the equality fast path,
\* else every position.
SelectCandidates(t, cond) ==
  IF cond # NoCond /\ cond.Operator = "=" /\ cond.Column \in DOMAIN t.indexes
  THEN IndexLookup(t.indexes[cond.Column], cond.Value)
  ELSE [k \in 1..Len(t.rows) |-> k - 1]

\* Select's filter loop over the candidates.
SelectResults(t, cand, columns, cond) ==
  LET RECURSIVE filter(_, _)
      filter(results, k) ==
        IF k > Len(cand) THEN results
        ELSE IF cand[k] >= Len(t.rows) THEN filter(results, k + 1)
        ELSE IF ~Matches(t.rows[cand[k] + 1], cond) THEN filter(results, k + 1)
        ELSE filter(Append(results, projectRow(t.rows[cand[k] + 1], columns)),
                    k + 1)
  IN  filter(<<>>, 1)

\* ---------------------------------------------------------------- database
\* Database.tables is map[string]*Table: a function from the names present.
\* Each entry point returns the registry after the call with the results.
Result(db, n, err) == [tables |-> db, n |-> n, err |-> err]

\* CreateTable that registers the new table over an existing one.
DbCreateTable_Replace(db, name, schema) ==
  Result([k \in DOMAIN db \cup {name} |->
            IF k = name THEN NewTable(name, schema) ELSE db[k]], 0, NoErr)

\* DropTable that reports success without removing the entry.
DbDropTable_Keep(db, name) ==
  IF name \notin DOMAIN db THEN Result(db, 0, ErrTableNotFound(name))
  ELSE Result(db, 0, NoErr)

DbCreateTable(db, name, schema) ==
  IF name \in DOMAIN db THEN Result(db, 0, ErrTableAlreadyExists(name))
  ELSE Result(db @@ (name :> NewTable(name, schema)), 0, NoErr)

DbDropTable(db, name) ==
  IF name \notin DOMAIN db THEN Result(db, 0, ErrTableNotFound(name))
  ELSE Result([k \in DOMAIN db \ {name} |-> db[k]], 0, NoErr)

DbInsert(db, tableName, row) ==
  IF tableName \notin DOMAIN db THEN Result(db, 0, ErrTableNotFound(tableName))
  ELSE LET r == InsertInto(db[tableName], row)
       IN  Result([db EXCEPT ![tableName] = r.table], r.n, r.err)

DbUpdate(db, tableName, updates, cond) ==
  IF tableName \notin DOMAIN db THEN Result(db, 0, ErrTableNotFound(tableName))
  ELSE LET r == UpdateIn(db[tableName], updates, cond)
       IN  Result([db EXCEPT ![tableName] = r.table], r.n, r.err)

DbDelete(db, tableName, cond) ==
  IF tableName \notin DOMAIN db THEN Result(db, 0, ErrTableNotFound(tableName))
  ELSE LET r == DeleteFrom(db[tableName], cond)
       IN  Result([db EXCEPT ![tableName] = r.table], r.n, r.err)

\* Select's results: out is the result slice, n its length.
DbSelect(db, tableName, columns, cond) ==
  IF tableName \notin DOMAIN db
  THEN [tables |-> db, n |-> 0, err |-> ErrTableNotFound(tableName),
        out |-> <<>>]
  ELSE LET t == db[tableName]
           out == SelectResults(t, SelectCandidates(t, cond), columns, cond)
       IN  [tables |-> db, n |-> Len(out), err |-> NoErr, out |-> out]

\* ------------------------------------------------------------------- join
JoinCondition(leftColumn, rightColumn) ==
  [LeftColumn |-> leftColumn, RightColumn |-> rightColumn]

\* fmt.Sprintf("%s.%s", table, col)
QualifiedName(table, col) == table \o "." \o col

\* mergeRows qualifying only the column names the two rows share.
mergeRows_QualifyCollisions(left, right, leftTable, rightTable) ==
  LET shared == DOMAIN left \cap DOMAIN right
      lname(c) == IF c \in shared THEN QualifiedName(leftTable, c) ELSE c
      rname(c) == IF c \in shared THEN QualifiedName(rightTable, c) ELSE c
      lq == {lname(c) : c \in DOMAIN left}
      rq == {rname(c) : c \in DOMAIN right}
  IN  [k \in lq \cup rq |->
         IF k \in rq THEN right[CHOOSE c \in DOMAIN right : rname(c) = k]
         ELSE left[CHOOSE c \in DOMAIN left : lname(c) = k]]

\* mergeRows: the left columns under the left table's name, then the right
\* columns under the right table's name (a later Set replaces an earlier one).
mergeRows(left, right, leftTable, rightTable) ==
  LET lq == {QualifiedName(leftTable, c) : c \in DOMAIN left}
      rq == {QualifiedName(rightTable, c) : c \in DOMAIN right}
  IN  [k \in lq \cup rq |->
         IF k \in rq
         THEN right[CHOOSE c \in DOMAIN right : QualifiedName(rightTable, c) = k]
         ELSE left[CHOOSE c \in DOMAIN left : QualifiedName(leftTable, c) = k]]

\* The matching right positions with the linear scan stopping at its first
\* match.
MatchingRightIndices_FirstOnly(right, rightColumn, leftValue) ==
  IF rightColumn \in DOMAIN right.indexes
  THEN IndexLookup(right.indexes[rightColumn], leftValue)
  ELSE LET hits == {i \in 0..(Len(right.rows) - 1) :
                      /\ RowHas(right.rows[i + 1], rightColumn)
                      /\ right.rows[i + 1][rightColumn] = leftValue}
       IN  IF hits = {} THEN <<>>
           ELSE <<CHOOSE i \in hits : \A j \in hits : i <= j>>

\* Matching positions whose linear scan stops before the last right row.
MatchingRightIndices_ScanShort(right, rightColumn, leftValue) ==
  IF rightColumn \in DOMAIN right.indexes
  THEN IndexLookup(right.indexes[rightColumn], leftValue)
  ELSE LET RECURSIVE scan(_, _)
           scan(found, i) ==
             IF i >= Len(right.rows) - 1 THEN found
             ELSE IF /\ RowHas(right.rows[i + 1], rightColumn)
                     /\ right.rows[i + 1][rightColumn] = leftValue
             THEN scan(Append(found, i), i + 1)
             ELSE scan(found, i + 1)
       IN  scan(<<>>, 0)

\* The positions of the right rows matching leftValue: the index bucket when
\* the right join column is indexed, else a linear scan.
MatchingRightIndices(right, rightColumn, leftValue) ==
  IF rightColumn \in DOMAIN right.indexes
  THEN IndexLookup(right.indexes[rightColumn], leftValue)
  ELSE LET RECURSIVE scan(_, _)
           scan(found, i) ==
             IF i >= Len(right.rows) THEN found
             ELSE IF /\ RowHas(right.rows[i + 1], rightColumn)
                     /\ right.rows[i + 1][rightColumn] = leftValue
             THEN scan(Append(found, i), i + 1)
             ELSE scan(found, i + 1)
       IN  scan(<<>>, 0)

\* The joined rows of one left row, appended to results.
JoinLeftRow(results, leftRow, right, matching, leftTable, rightTable, selectColumns) ==
  LET RECURSIVE each(_, _)
      each(res, k) ==
        IF k > Len(matching) THEN res
        ELSE IF matching[k] >= Len(right.rows) THEN each(res, k + 1)
        ELSE LET joinedRow == mergeRows(leftRow, right.rows[matching[k] + 1],
                                        leftTable, rightTable)
             IN  each(Append(res, projectRow(joinedRow, selectColumns)), k + 1)
  IN  each(results, 1)

\* InnerJoin's loop over the left rows.
JoinRows(left, right, condition, leftTable, rightTable, selectColumns) ==
  LET RECURSIVE loop(_, _)
      loop(results, i) ==
        IF i >= Len(left.rows) THEN results
        ELSE LET leftRow == left.rows[i + 1]
             IN  IF \/ ~RowHas(leftRow, condition.LeftColumn)
                    \/ leftRow[condition.LeftColumn] = NULL
                 THEN loop(results, i + 1)
                 ELSE loop(JoinLeftRow(results, leftRow, right,
                             MatchingRightIndices(right, condition.RightColumn,
                                                  leftRow[condition.LeftColumn]),
                             leftTable, rightTable, selectColumns),
                           i + 1)
  IN  loop(<<>>, 0)

\* InnerJoin that verifies the right join column before the left one.
DbInnerJoin_RightColumnFirst(db, leftTable, rightTable, condition, selectColumns) ==
  LET fail(err) == [tables |-> db, n |-> 0, err |-> err, out |-> <<>>]
  IN  IF leftTable \notin DOMAIN db THEN fail(ErrTableNotFound(leftTable))
      ELSE IF rightTable \notin DOMAIN db
      THEN fail(ErrTableNotFound(rightTable))
      ELSE IF ~hasColumn(db[rightTable], condition.RightColumn)
      THEN fail(ErrColumnNotFound(condition.RightColumn))
      ELSE IF ~hasColumn(db[leftTable], condition.LeftColumn)
      THEN fail(ErrColumnNotFound(condition.LeftColumn))
      ELSE LET out == JoinRows(db[leftTable], db[rightTable], condition,
                               leftTable, rightTable, selectColumns)
           IN  [tables |-> db, n |-> Len(out), err |-> NoErr, out |-> out]

DbInnerJoin(db, leftTable, rightTable, condition, selectColumns) ==
  LET fail(err) == [tables |-> db, n |-> 0, err |-> err, out |-> <<>>]
  IN  IF leftTable \notin DOMAIN db THEN fail(ErrTableNotFound(leftTable))
      ELSE IF rightTable \notin DOMAIN db
      THEN fail(ErrTableNotFound(rightTable))
      ELSE IF ~hasColumn(db[leftTable], condition.LeftColumn)
      THEN fail(ErrColumnNotFound(condition.LeftColumn))
      ELSE IF ~hasColumn(db[rightTable], condition.RightColumn)
      THEN fail(ErrColumnNotFound(condition.RightColumn))
      ELSE LET out == JoinRows(db[leftTable], db[rightTable], condition,
                               leftTable, rightTable, selectColumns)
           IN  [tables |-> db, n |-> Len(out), err |-> NoErr, out |-> out]

\* db.GetTable(name) followed by table.CreateIndex(column), as the server's
\* Initialize does.
DbCreateIndex(db, tableName, columnName) ==
  IF tableName \notin DOMAIN db THEN Result(db, 0, ErrTableNotFound(tableName))
  ELSE IF ~hasColumn(db[tableName], columnName)
  THEN Result(db, 0, ErrColumnNotFound(columnName))
  ELSE Result([db EXCEPT ![tableName] = TableCreateIndex(@, columnName)],
              0, NoErr)

\* ------------------------------------------------------------------ inputs
SeqTables == {"users"}
Schemas == {UsersSchema}
RowInputs == UNION {[S -> InputValues] : S \in SUBSET ColumnNames}
CondInputs ==
  {NoCond} \cup {Cond(c, "=", IntV(n)) : c \in ColumnNames, n \in 1..MaxVal}
\* Update calls: one column under every condition, two columns on all rows.
UpdateInputs ==
  {<<u, c>> \in RowInputs \X CondInputs :
     \/ Cardinality(DOMAIN u) = 1
     \/ Cardinality(DOMAIN u) = 2 /\ c = NoCond}
IndexColumns == ColumnNames \cup {"missing"}
\* Select calls: the conditions of the other calls and equality with nil;
\* every column or a projection.
SelectConds == CondInputs \cup {Cond(c, "=", NULL) : c \in ColumnNames}
SelectColumns == {<<>>, <<"id", "missing">>}

\* ------------------------------------------------------------------- state
\* tables: Database.tables.  last: the latest call and what it returned.
\* lock: Database.mu.  proc: each concurrent caller's position and locals.
VARIABLES tables, last, lock, proc

vars == <<tables, last, lock, proc>>

Procs == {"p1", "p2"}

\* A caller that has not called yet.
Idle ==
  [pc |-> "idle", op |-> "none", row |-> <<>>, updates |-> <<>>,
   cond |-> NoCond, column |-> "", i |-> 0, n |-> 0, rowIndex |-> 0,
   cand |-> <<>>, built |-> <<>>, out |-> <<>>, err |-> NoErr]

Unlocked == [writer |-> "", readers |-> {}]

Returned(op, r) == [op |-> op, err |-> r.err, n |-> r.n]

Init ==
  /\ tables = <<>>
  /\ last = [op |-> "NewDatabase", err |-> NoErr, n |-> 0]
  /\ lock = Unlocked
  /\ proc = [p \in Procs |-> Idle]

CreateTable(name, schema) ==
  \E r \in {DbCreateTable(tables, name, schema)} :
      /\ tables' = r.tables
      /\ UNCHANGED <<lock, proc>>
      /\ last' = Returned("CreateTable", r)

DropTable(name) ==
  \E r \in {DbDropTable(tables, name)} :
      /\ tables' = r.tables
      /\ UNCHANGED <<lock, proc>>
      /\ last' = Returned("DropTable", r)

Insert(name, row) ==
  \E r \in {DbInsert(tables, name, row)} :
      /\ name \in DOMAIN tables => Len(tables[name].rows) < MaxRows
      /\ tables' = r.tables
      /\ UNCHANGED <<lock, proc>>
      /\ last' = Returned("Insert", r)

Update(name, updates, cond) ==
  \E r \in {DbUpdate(tables, name, updates, cond)} :
      /\ tables' = r.tables
      /\ UNCHANGED <<lock, proc>>
      /\ last' = Returned("Update", r)

Delete(name, cond) ==
  \E r \in {DbDelete(tables, name, cond)} :
      /\ tables' = r.tables
      /\ UNCHANGED <<lock, proc>>
      /\ last' = Returned("Delete", r)

CreateIndex(name, column) ==
  \E r \in {DbCreateIndex(tables, name, column)} :
      /\ tables' = r.tables
      /\ UNCHANGED <<lock, proc>>
      /\ last' = Returned("CreateIndex", r)

\* Select leaves the database as it is; last records the result count.
Select(name, columns, cond) ==
  \E r \in {DbSelect(tables, name, columns, cond)} :
      /\ UNCHANGED <<tables, lock, proc>>
      /\ last' = Returned("Select", r)

Next ==
  \/ \E name \in SeqTables, schema \in Schemas : CreateTable(name, schema)
  \/ \E name \in SeqTables : DropTable(name)
  \/ \E name \in SeqTables, row \in RowInputs : Insert(name, row)
  \/ \E name \in SeqTables, uc \in UpdateInputs : Update(name, uc[1], uc[2])
  \/ \E name \in SeqTables, c \in CondInputs : Delete(name, c)
  \/ \E name \in SeqTables, col \in IndexColumns : CreateIndex(name, col)

Spec == Init /\ [][Next]_vars

\* ----------------------------------------------------------------- queries
\* Two tables, posts and users, with the schemas of the join tests: posts are
\* inserted and deleted, posts.user_id is indexed on request, and Select and
\* InnerJoin read the tables.
MaxKey == 3
JoinUsersSchema ==
  << Column("id", "INT", TRUE, FALSE, FALSE),
     Column("name", "STRING", FALSE, FALSE, FALSE) >>
JoinPostsSchema ==
  << Column("id", "INT", TRUE, FALSE, FALSE),
     Column("user_id", "INT", FALSE, FALSE, FALSE),
     Column("title", "STRING", FALSE, FALSE, FALSE) >>
QueryTables == {"posts", "users"}
PostRows ==
  {("id" :> IntV(k)) : k \in 1..MaxKey}
    \cup {("id" :> IntV(k)) @@ ("user_id" :> v) :
             k \in 1..MaxKey, v \in {NULL, IntV(1)}}
UserRows == {("id" :> IntV(k)) @@ ("name" :> IntV(1)) : k \in 1..MaxVal}
QueryRows(name) == IF name = "posts" THEN PostRows ELSE UserRows
QueryConds ==
  {NoCond} \cup {Cond("user_id", "=", v) : v \in {NULL, IntV(1)}}
           \cup {Cond("id", "=", IntV(k)) : k \in 1..MaxKey}
JoinInputs ==
  { <<"posts", "users", JoinCondition("user_id", "id")>>,
    <<"users", "posts", JoinCondition("id", "user_id")>>,
    <<"posts", "posts", JoinCondition("user_id", "id")>>,
    <<"posts", "users", JoinCondition("user_id", "missing")>> }
JoinColumns == {<<>>, <<"posts.id", "users.name", "title">>}

InitQuery ==
  /\ tables = DbCreateTable(DbCreateTable(<<>>, "users", JoinUsersSchema).tables,
                            "posts", JoinPostsSchema).tables
  /\ last = [op |-> "CreateTable", err |-> NoErr, n |-> 0]
  /\ lock = Unlocked
  /\ proc = [p \in Procs |-> Idle]

\* InnerJoin leaves the database as it is; last records the result count.
InnerJoin(leftTable, rightTable, condition, selectColumns) ==
  \E r \in {DbInnerJoin(tables, leftTable, rightTable, condition, selectColumns)} :
      /\ UNCHANGED <<tables, lock, proc>>
      /\ last' = Returned("InnerJoin", r)

NextQuery ==
  \/ \E name \in QueryTables : \E row \in QueryRows(name) : Insert(name, row)
  \/ \E c \in QueryConds : Delete("posts", c)
  \/ CreateIndex("posts", "user_id")
  \/ \E name \in QueryTables, cols \in SelectColumns, c \in QueryConds :
       Select(name, cols, c)
  \/ \E j \in JoinInputs, cols \in JoinColumns : InnerJoin(j[1], j[2], j[3], cols)

SpecQuery == InitQuery /\ [][NextQuery]_vars

\* ------------------------------------------------------------- constraints
\* One table with two unique columns, as in the test of several constraints:
\* rows with every combination of absent, nil and stored values are inserted.
ConstraintsSchema ==
  << Column("id", "INT", TRUE, FALSE, FALSE),
     Column("username", "STRING", FALSE, TRUE, TRUE),
     Column("email", "STRING", FALSE, TRUE, FALSE) >>
ConstraintsColumns == {"id", "username", "email"}
ConstraintsRows == UNION {[S -> InputValues] : S \in SUBSET ConstraintsColumns}
ConstraintsConds == {NoCond} \cup {Cond("id", "=", IntV(n)) : n \in 1..MaxVal}

InitConstraints ==
  /\ tables = DbCreateTable(<<>>, "users", ConstraintsSchema).tables
  /\ last = [op |-> "CreateTable", err |-> NoErr, n |-> 0]
  /\ lock = Unlocked
  /\ proc = [p \in Procs |-> Idle]

NextConstraints ==
  \/ \E row \in ConstraintsRows : Insert("users", row)
  \/ \E c \in ConstraintsConds : Delete("users", c)

SpecConstraints == InitConstraints /\ [][NextConstraints]_vars

\* ---------------------------------------------------------------- registry
\* Tables are created, looked up and dropped under two names, with the users
\* schema or with a schema that flags two columns as primary key; every
\* entry point is called with names that are and are not registered.
NoTable ==
  [name |-> "", schema |-> <<>>, rows |-> <<>>, primaryKey |-> "",
   indexes |-> <<>>]

\* GetTable returns (table, error); the table is nil when the name is absent.
DbGetTable(db, name) ==
  IF name \notin DOMAIN db
  THEN [tables |-> db, n |-> 0, err |-> ErrTableNotFound(name),
        table |-> NoTable]
  ELSE [tables |-> db, n |-> 0, err |-> NoErr, table |-> db[name]]

TwoKeysSchema ==
  << Column("id", "INT", TRUE, FALSE, FALSE),
     Column("name", "STRING", TRUE, FALSE, FALSE),
     Column("email", "STRING", FALSE, TRUE, FALSE) >>
RegistryNames == {"users", "posts"}
RegistrySchemas == {UsersSchema, TwoKeysSchema}
RegistryRows ==
  {("id" :> IntV(i)) @@ ("name" :> IntV(n)) : i \in 1..MaxVal, n \in 1..MaxVal}
RegistryConds == {NoCond, Cond("id", "=", IntV(1))}
RegistryUpdates == {("name" :> IntV(n)) : n \in 1..MaxVal}
RegistryJoins ==
  {<<l, r, JoinCondition(lc, rc)>> :
     l \in RegistryNames, r \in RegistryNames,
     lc \in {"id", "missing"}, rc \in {"id", "absent"}}

GetTableCall(name) ==
  \E r \in {DbGetTable(tables, name)} :
      /\ UNCHANGED <<tables, lock, proc>>
      /\ last' = Returned("GetTable", r)

NextRegistry ==
  \/ \E name \in RegistryNames, schema \in RegistrySchemas :
       CreateTable(name, schema)
  \/ \E name \in RegistryNames : DropTable(name)
  \/ \E name \in RegistryNames : GetTableCall(name)
  \/ \E name \in RegistryNames, row \in RegistryRows : Insert(name, row)
  \/ \E name \in RegistryNames, u \in RegistryUpdates, c \in RegistryConds :
       Update(name, u, c)
  \/ \E name \in RegistryNames, c \in RegistryConds : Delete(name, c)
  \/ \E name \in RegistryNames, c \in RegistryConds : Select(name, <<>>, c)
  \/ \E j \in RegistryJoins : InnerJoin(j[1], j[2], j[3], <<>>)

SpecRegistry == Init /\ [][NextRegistry]_vars

\* ---------------------------------------------------- ordering conditions
\* The table of the Select-with-condition test, users(id INT PRIMARY KEY,
\* age INT): the engine stores whatever value a row carries, so age is an
\* integer, a string, a boolean, nil or absent, and Select and Delete are
\* called with the four ordering operators.
StrV(n) == [t |-> "string", v |-> n]
BoolV == [t |-> "bool", v |-> 1]
OrderingSchema ==
  << Column("id", "INT", TRUE, FALSE, FALSE),
     Column("age", "INT", FALSE, FALSE, FALSE) >>
AgeValues == {IntV(n) : n \in 1..MaxVal} \cup {StrV(1), BoolV, NULL}
OrderingRows ==
  {("id" :> IntV(i)) : i \in 1..MaxVal}
    \cup {("id" :> IntV(i)) @@ ("age" :> a) : i \in 1..MaxVal, a \in AgeValues}
OrderingOperators == {">", "<", ">=", "<="}
OrderingConds ==
  {Cond("age", op, v) : op \in OrderingOperators, v \in AgeValues}

InitOrdering ==
  /\ tables = DbCreateTable(<<>>, "users", OrderingSchema).tables
  /\ last = [op |-> "CreateTable", err |-> NoErr, n |-> 0]
  /\ lock = Unlocked
  /\ proc = [p \in Procs |-> Idle]

NextOrdering ==
  \/ \E row \in OrderingRows : Insert("users", row)
  \/ \E c \in OrderingConds : Select("users", <<>>, c)
  \/ \E c \in OrderingConds : Delete("users", c)

SpecOrdering == InitOrdering /\ [][NextOrdering]_vars

\* ------------------------------------------------------ concurrent callers
\* Each caller in Procs makes one call on the table "users" and runs it one
\* statement at a time.  Only Database.mu orders the callers: GetTable holds
\* the read lock while it looks the table up, CreateTable holds the write
\* lock for its body, and nothing else in a call takes the lock.
ConcTable == "users"
V(n) == IntV(n)
ConcFirstRow == ("id" :> V(1)) @@ ("name" :> V(1)) @@ ("email" :> V(1))
ConcRows ==
  { ("id" :> V(2)) @@ ("name" :> V(1)) @@ ("email" :> V(2)),
    ("id" :> V(2)) @@ ("name" :> V(2)) }
ConcUpdates ==
  { <<("email" :> V(2)), Cond("id", "=", V(1))>>,
    <<("name" :> V(2)), NoCond>> }
ConcDeleteConds == {NoCond, Cond("id", "=", V(1))}
ConcSelectConds == {NoCond, Cond("email", "=", V(2))}

\* The registry after CreateTable("users", ...) and one Insert.
InitConc ==
  /\ tables = DbInsert(DbCreateTable(<<>>, ConcTable, UsersSchema).tables,
                       ConcTable, ConcFirstRow).tables
  /\ last = [op |-> "Insert", err |-> NoErr, n |-> 1]
  /\ lock = Unlocked
  /\ proc = [p \in Procs |-> Idle]

At(p, pc) == proc[p].pc = pc
Goto(p, pc) == proc' = [proc EXCEPT ![p].pc = pc]
Return(p, err, n) ==
  proc' = [proc EXCEPT ![p].pc = "done", ![p].err = err, ![p].n = n]
Table == tables[ConcTable]
SetTable(t) == tables' = [tables EXCEPT ![ConcTable] = t]

CallInsert(p, row) ==
  /\ At(p, "idle")
  /\ proc' = [proc EXCEPT ![p].pc = "RLock", ![p].op = "Insert", ![p].row = row]
  /\ UNCHANGED <<tables, last, lock>>

CallUpdate(p, updates, cond) ==
  /\ At(p, "idle")
  /\ proc' = [proc EXCEPT ![p].pc = "RLock", ![p].op = "Update",
                          ![p].updates = updates, ![p].cond = cond]
  /\ UNCHANGED <<tables, last, lock>>

CallDelete(p, cond) ==
  /\ At(p, "idle")
  /\ proc' = [proc EXCEPT ![p].pc = "RLock", ![p].op = "Delete", ![p].cond = cond]
  /\ UNCHANGED <<tables, last, lock>>

CallSelect(p, cond) ==
  /\ At(p, "idle")
  /\ proc' = [proc EXCEPT ![p].pc = "RLock", ![p].op = "Select", ![p].cond = cond]
  /\ UNCHANGED <<tables, last, lock>>

CallCreateIndex(p, column) ==
  /\ At(p, "idle")
  /\ proc' = [proc EXCEPT ![p].pc = "RLock", ![p].op = "CreateIndex",
                          ![p].column = column]
  /\ UNCHANGED <<tables, last, lock>>

CallCreateTable(p) ==
  /\ At(p, "idle")
  /\ proc' = [proc EXCEPT ![p].pc = "Lock", ![p].op = "CreateTable"]
  /\ UNCHANGED <<tables, last, lock>>

\* db.mu.Lock(): no writer and no reader holds the mutex.
Lock(p) ==
  /\ At(p, "Lock")
  /\ lock.writer = "" /\ lock.readers = {}
  /\ lock' = [lock EXCEPT !.writer = p]
  /\ Goto(p, "CreateTable")
  /\ UNCHANGED <<tables, last>>

\* CreateTable's body and the deferred Unlock.
CreateTableBody(p) ==
  /\ At(p, "CreateTable")
  /\ \E r \in {DbCreateTable(tables, ConcTable, UsersSchema)} :
       /\ tables' = r.tables
       /\ Return(p, r.err, 0)
  /\ lock' = [lock EXCEPT !.writer = ""]
  /\ UNCHANGED last

\* db.mu.RLock() in GetTable: no writer holds the mutex.
RLock(p) ==
  /\ At(p, "RLock")
  /\ lock.writer = ""
  /\ lock' = [lock EXCEPT !.readers = @ \cup {p}]
  /\ Goto(p, "GetTable")
  /\ UNCHANGED <<tables, last>>

\* GetTable's lookup and the deferred RUnlock; the caller goes on without
\* the lock.
GetTable(p) ==
  /\ At(p, "GetTable")
  /\ lock' = [lock EXCEPT !.readers = @ \ {p}]
  /\ IF ConcTable \notin DOMAIN tables THEN Return(p, ErrTableNotFound(ConcTable), 0)
     ELSE Goto(p, proc[p].op)
  /\ UNCHANGED <<tables, last>>

\* Insert: checker.ValidateInsert(row).
InsertValidate(p) ==
  /\ At(p, "Insert")
  /\ \E err \in {ValidateInsert(Table, proc[p].row)} :
       IF err # NoErr THEN Return(p, err, 0) ELSE Goto(p, "addRow")
  /\ UNCHANGED <<tables, last, lock>>

\* addRow: rowIndex := len(t.rows).
AddRowLen(p) ==
  /\ At(p, "addRow")
  /\ proc' = [proc EXCEPT ![p].pc = "append", ![p].rowIndex = Len(Table.rows)]
  /\ UNCHANGED <<tables, last, lock>>

\* addRow: t.rows = append(t.rows, row).
AddRowAppend(p) ==
  /\ At(p, "append")
  /\ Len(Table.rows) < MaxRows
  /\ SetTable(AppendRow(Table, proc[p].row))
  /\ Goto(p, "index")
  /\ UNCHANGED <<last, lock>>

\* addRow: the index loop, with the rowIndex read before the append.
AddRowIndex(p) ==
  /\ At(p, "index")
  /\ SetTable(IndexRow(Table, proc[p].row, proc[p].rowIndex))
  /\ Return(p, NoErr, 1)
  /\ UNCHANGED <<last, lock>>

\* Select: the candidate positions.
SelectLookup(p) ==
  /\ At(p, "Select")
  /\ proc' = [proc EXCEPT ![p].pc = "filter",
                          ![p].cand = SelectCandidates(Table, proc[p].cond)]
  /\ UNCHANGED <<tables, last, lock>>

\* Select: the filter loop over the candidates read before.
SelectFilter(p) ==
  /\ At(p, "filter")
  /\ proc' = [proc EXCEPT ![p].pc = "done",
                          ![p].out = SelectResults(Table, proc[p].cand, <<>>,
                                                   proc[p].cond)]
  /\ UNCHANGED <<tables, last, lock>>

\* Update: one pass of the loop "for i := 0; i < len(table.rows); i++".
UpdateStep(p) ==
  /\ At(p, "Update")
  /\ LET i == proc[p].i
         row == Table.rows[i + 1]
         newRow == Overlay(row, proc[p].updates)
     IN  IF ~(i < Len(Table.rows))
         THEN Return(p, NoErr, proc[p].n) /\ UNCHANGED tables
         ELSE IF ~Matches(row, proc[p].cond)
         THEN proc' = [proc EXCEPT ![p].i = i + 1] /\ UNCHANGED tables
         ELSE \E err \in {ValidateUpdate(Table, row, newRow)} :
                IF err # NoErr
                THEN Return(p, err, proc[p].n) /\ UNCHANGED tables
                ELSE /\ SetTable(updateRow(Table, i, newRow))
                     /\ proc' = [proc EXCEPT ![p].i = i + 1, ![p].n = @ + 1]
  /\ UNCHANGED <<last, lock>>

\* Delete: i := len(table.rows) - 1.
DeleteStart(p) ==
  /\ At(p, "Delete")
  /\ proc' = [proc EXCEPT ![p].pc = "deleteLoop", ![p].i = Len(Table.rows) - 1]
  /\ UNCHANGED <<tables, last, lock>>

\* Delete: one pass of the loop "for ...; i >= 0; i--".  table.rows[i] past
\* the end of the slice panics.
DeleteStep(p) ==
  /\ At(p, "deleteLoop")
  /\ LET i == proc[p].i
     IN  IF ~(i >= 0)
         THEN Return(p, NoErr, proc[p].n) /\ UNCHANGED tables
         ELSE IF i >= Len(Table.rows)
         THEN Goto(p, "panic") /\ UNCHANGED tables
         ELSE IF ~Matches(Table.rows[i + 1], proc[p].cond)
         THEN proc' = [proc EXCEPT ![p].i = i - 1] /\ UNCHANGED tables
         ELSE /\ SetTable(deleteRow(Table, i))
              /\ proc' = [proc EXCEPT ![p].i = i - 1, ![p].n = @ + 1]
  /\ UNCHANGED <<last, lock>>

\* Table.CreateIndex: the column and existing-index checks.
CreateIndexCheck(p) ==
  /\ At(p, "CreateIndex")
  /\ IF ~hasColumn(Table, proc[p].column)
     THEN Return(p, ErrColumnNotFound(proc[p].column), 0)
     ELSE IF proc[p].column \in DOMAIN Table.indexes THEN Return(p, NoErr, 0)
     ELSE Goto(p, "build")
  /\ UNCHANGED <<tables, last, lock>>

\* Table.CreateIndex: the loop that builds the index from the rows.
CreateIndexBuild(p) ==
  /\ At(p, "build")
  /\ proc' = [proc EXCEPT ![p].pc = "install",
                          ![p].built = BuildIndex(Table.rows, proc[p].column, 0)]
  /\ UNCHANGED <<tables, last, lock>>

\* Table.CreateIndex: t.indexes[columnName] = idx.
CreateIndexInstall(p) ==
  /\ At(p, "install")
  /\ SetTable([Table EXCEPT !.indexes =
                 [c \in DOMAIN @ \cup {proc[p].column} |->
                    IF c = proc[p].column THEN proc[p].built ELSE @[c]]])
  /\ Return(p, NoErr, 0)
  /\ UNCHANGED <<last, lock>>

NextConc ==
  \E p \in Procs :
    \/ \E row \in ConcRows : CallInsert(p, row)
    \/ \E uc \in ConcUpdates : CallUpdate(p, uc[1], uc[2])
    \/ \E c \in ConcDeleteConds : CallDelete(p, c)
    \/ \E c \in ConcSelectConds : CallSelect(p, c)
    \/ CallCreateIndex(p, "name")
    \/ CallCreateTable(p)
    \/ Lock(p)
    \/ CreateTableBody(p)
    \/ RLock(p)
    \/ GetTable(p)
    \/ InsertValidate(p)
    \/ AddRowLen(p)
    \/ AddRowAppend(p)
    \/ AddRowIndex(p)
    \/ SelectLookup(p)
    \/ SelectFilter(p)
    \/ UpdateStep(p)
    \/ DeleteStart(p)
    \/ DeleteStep(p)
    \/ CreateIndexCheck(p)
    \/ CreateIndexBuild(p)
    \/ CreateIndexInstall(p)

SpecConc == InitConc /\ [][NextConc]_vars

\* The statements of a call in progress.  The lock is fair and every
\* goroutine is scheduled: a caller that can take its next step eventually
\* takes it.  Whether and when a caller makes a call is up to the caller.
StepConc(p) ==
  \/ Lock(p)
  \/ CreateTableBody(p)
  \/ RLock(p)
  \/ GetTable(p)
  \/ InsertValidate(p)
  \/ AddRowLen(p)
  \/ AddRowAppend(p)
  \/ AddRowIndex(p)
  \/ SelectLookup(p)
  \/ SelectFilter(p)
  \/ UpdateStep(p)
  \/ DeleteStart(p)
  \/ DeleteStep(p)
  \/ CreateIndexCheck(p)
  \/ CreateIndexBuild(p)
  \/ CreateIndexInstall(p)

SpecConcFair == SpecConc /\ \A p \in Procs : WF_vars(StepConc(p))

\* ------------------------------------------------ a join beside a writer
\* One caller runs InnerJoin(posts, users, user_id = id) a statement at a
\* time while another caller inserts into and deletes from users, each of
\* its calls running between two statements of the join.  InnerJoin holds
\* the read lock only inside its two GetTable calls; the writer's calls hold
\* it only inside their own GetTable.  seen collects the database as it
\* stood at every instant from the join's call to its return.
Joiner == "p1"
JoinLeft == "posts"
JoinRight == "users"
JoinOn == JoinCondition("user_id", "id")
JoinIdle ==
  [pc |-> "idle", leftRows |-> <<>>, i |-> 0, out |-> <<>>, err |-> NoErr,
   seen |-> {}]

InitJoinConc ==
  /\ tables =
       DbInsert(
         DbInsert(
           DbInsert(
             DbCreateTable(DbCreateTable(<<>>, "users", JoinUsersSchema).tables,
                           "posts", JoinPostsSchema).tables,
             "users", ("id" :> IntV(1)) @@ ("name" :> IntV(1))).tables,
           "posts", ("id" :> IntV(1)) @@ ("user_id" :> IntV(1))).tables,
         "posts", ("id" :> IntV(2)) @@ ("user_id" :> IntV(1))).tables
  /\ last = [op |-> "Insert", err |-> NoErr, n |-> 1]
  /\ lock = Unlocked
  /\ proc = [p \in Procs |-> IF p = Joiner THEN JoinIdle ELSE Idle]

JoinCall ==
  /\ At(Joiner, "idle")
  /\ proc' = [proc EXCEPT ![Joiner].pc = "GetLeft", ![Joiner].seen = {tables}]
  /\ UNCHANGED <<tables, last, lock>>

JoinFail(err) ==
  /\ proc' = [proc EXCEPT ![Joiner].pc = "done", ![Joiner].err = err]
  /\ last' = [op |-> "InnerJoin", err |-> err, n |-> 0]

\* left, err := db.GetTable(leftTable), under the read lock.
JoinGetLeft ==
  /\ At(Joiner, "GetLeft")
  /\ lock.writer = ""
  /\ IF JoinLeft \notin DOMAIN tables THEN JoinFail(ErrTableNotFound(JoinLeft))
     ELSE Goto(Joiner, "GetRight") /\ UNCHANGED last
  /\ UNCHANGED <<tables, lock>>

\* right, err := db.GetTable(rightTable), under the read lock.
JoinGetRight ==
  /\ At(Joiner, "GetRight")
  /\ lock.writer = ""
  /\ IF JoinRight \notin DOMAIN tables
     THEN JoinFail(ErrTableNotFound(JoinRight))
     ELSE Goto(Joiner, "Check") /\ UNCHANGED last
  /\ UNCHANGED <<tables, lock>>

\* The column checks, and the evaluation of "range left.rows".
JoinCheck ==
  /\ At(Joiner, "Check")
  /\ IF ~hasColumn(tables[JoinLeft], JoinOn.LeftColumn)
     THEN JoinFail(ErrColumnNotFound(JoinOn.LeftColumn))
     ELSE IF ~hasColumn(tables[JoinRight], JoinOn.RightColumn)
     THEN JoinFail(ErrColumnNotFound(JoinOn.RightColumn))
     ELSE /\ proc' = [proc EXCEPT ![Joiner].pc = "Loop",
                                  ![Joiner].leftRows = tables[JoinLeft].rows,
                                  ![Joiner].i = 0, ![Joiner].out = <<>>]
          /\ UNCHANGED last
  /\ UNCHANGED <<tables, lock>>

\* One iteration of the loop over the left rows, reading the right table as
\* it stands.
JoinStep ==
  /\ At(Joiner, "Loop")
  /\ proc[Joiner].i < Len(proc[Joiner].leftRows)
  /\ LET leftRow == proc[Joiner].leftRows[proc[Joiner].i + 1]
         right == tables[JoinRight]
     IN  proc' = [proc EXCEPT
           ![Joiner].i = @ + 1,
           ![Joiner].out =
             IF \/ ~RowHas(leftRow, JoinOn.LeftColumn)
                \/ leftRow[JoinOn.LeftColumn] = NULL
             THEN @
             ELSE JoinLeftRow(@, leftRow, right,
                    MatchingRightIndices(right, JoinOn.RightColumn,
                                         leftRow[JoinOn.LeftColumn]),
                    JoinLeft, JoinRight, <<>>)]
  /\ UNCHANGED <<tables, last, lock>>

JoinReturn ==
  /\ At(Joiner, "Loop")
  /\ proc[Joiner].i >= Len(proc[Joiner].leftRows)
  /\ proc' = [proc EXCEPT ![Joiner].pc = "done"]
  /\ last' = [op |-> "InnerJoin", err |-> NoErr, n |-> Len(proc[Joiner].out)]
  /\ UNCHANGED <<tables, lock>>

\* The database after a write joins seen while the join is running.
Observed(db) ==
  IF proc[Joiner].pc \notin {"idle", "done"}
  THEN [proc EXCEPT ![Joiner].seen = @ \cup {db}] ELSE proc

\* A whole Insert call of the other caller.
WriterInsert(row) ==
  \E r \in {DbInsert(tables, JoinRight, row)} :
      /\ lock.writer = ""
      /\ tables' = r.tables
      /\ last' = Returned("Insert", r)
      /\ proc' = Observed(r.tables)
      /\ UNCHANGED lock

\* A whole Delete call of the other caller.
WriterDelete(cond) ==
  \E r \in {DbDelete(tables, JoinRight, cond)} :
      /\ lock.writer = ""
      /\ tables' = r.tables
      /\ last' = Returned("Delete", r)
      /\ proc' = Observed(r.tables)
      /\ UNCHANGED lock

NextJoinConc ==
  \/ JoinCall
  \/ JoinGetLeft
  \/ JoinGetRight
  \/ JoinCheck
  \/ JoinStep
  \/ JoinReturn
  \/ \E row \in UserRows : WriterInsert(row)
  \/ \E k \in 1..MaxVal : WriterDelete(Cond("id", "=", IntV(k)))

SpecJoinConc == InitJoinConc /\ [][NextJoinConc]_vars

\* ------------------------------------------------------- rows the caller holds
\* Row is a Go map, a reference: a caller that keeps the row it passed to
\* Insert, or a row a query returned, can write to it afterwards.  addRow
\* appends the caller's map itself to table.rows, so held.alias is the
\* position at which the held row is the stored row; projectRow and
\* mergeRows build new maps, so the rows in got are the caller's alone.
Caller == "p1"
AliasTable == "users"
NoAlias == -1
AliasRows ==
  {("id" :> IntV(i)) @@ ("name" :> IntV(1)) : i \in 1..MaxVal}
    \cup {("id" :> IntV(i)) @@ ("name" :> IntV(1)) @@ ("email" :> IntV(e)) :
            i \in 1..MaxVal, e \in 1..MaxVal}
AliasColumns == {"id", "email"}
CallerIdle ==
  [did |-> "none", held |-> <<>>, alias |-> NoAlias, got |-> <<>>]

InitAlias ==
  /\ tables = DbCreateTable(<<>>, AliasTable, UsersSchema).tables
  /\ last = [op |-> "CreateTable", err |-> NoErr, n |-> 0]
  /\ lock = Unlocked
  /\ proc = [p \in Procs |-> IF p = Caller THEN CallerIdle ELSE Idle]

\* row.Set(column, value) on a Go map: every holder of the map sees it.
SetIn(row, column, value) ==
  [c \in DOMAIN row \cup {column} |-> IF c = column THEN value ELSE row[c]]

\* db.Insert(table, row); the caller keeps row.
InsertHeld(row) ==
  \E r \in {DbInsert(tables, AliasTable, row)} :
      /\ Len(tables[AliasTable].rows) < MaxRows
      /\ tables' = r.tables
      /\ last' = Returned("Insert", r)
      /\ proc' = [proc EXCEPT
           ![Caller].did = "Insert",
           ![Caller].held = row,
           ![Caller].alias = IF r.err = NoErr
                             THEN Len(tables[AliasTable].rows) ELSE NoAlias]
      /\ UNCHANGED lock

\* The caller writes to the row it passed to Insert.
SetHeld(column, value) ==
  /\ proc[Caller].held # <<>>
  /\ proc' = [proc EXCEPT ![Caller].did = "SetHeld",
                          ![Caller].held = SetIn(@, column, value)]
  /\ tables' = IF proc[Caller].alias = NoAlias THEN tables
               ELSE [tables EXCEPT
                       ![AliasTable].rows[proc[Caller].alias + 1] =
                         SetIn(@, column, value)]
  /\ UNCHANGED <<last, lock>>

\* rows, err := db.Select(table, nil, cond); the caller keeps rows.
SelectGot(cond) ==
  \E r \in {DbSelect(tables, AliasTable, <<>>, cond)} :
      /\ last' = Returned("Select", r)
      /\ proc' = [proc EXCEPT ![Caller].did = "Select", ![Caller].got = r.out]
      /\ UNCHANGED <<tables, lock>>

\* rows, err := db.InnerJoin(table, table, id = id, nil); the caller keeps
\* rows.
JoinGot ==
  \E r \in {DbInnerJoin(tables, AliasTable, AliasTable,
                        JoinCondition("id", "id"), <<>>)} :
      /\ last' = Returned("InnerJoin", r)
      /\ proc' = [proc EXCEPT ![Caller].did = "InnerJoin", ![Caller].got = r.out]
      /\ UNCHANGED <<tables, lock>>

\* The caller writes to the first row a query returned.
SetGot(column, value) ==
  /\ proc[Caller].got # <<>>
  /\ proc' = [proc EXCEPT ![Caller].did = "SetGot",
                          ![Caller].got[1] = SetIn(@, column, value)]
  /\ UNCHANGED <<tables, last, lock>>

NextAlias ==
  \/ \E row \in AliasRows : InsertHeld(row)
  \/ \E c \in AliasColumns, n \in 1..MaxVal : SetHeld(c, IntV(n))
  \/ \E n \in 1..MaxVal : SelectGot(Cond("id", "=", IntV(n)))
  \/ JoinGot
  \/ \E n \in 1..MaxVal : SetGot("id", IntV(n))

SpecAlias == InitAlias /\ [][NextAlias]_vars

\* ================================================================ claims
\* Reference notions, computed from row storage alone.
Positions(t) == 0..(Len(t.rows) - 1)
RowAt(t, p) == t.rows[p + 1]
Holders(t, c, v) == {p \in Positions(t) : RowHas(RowAt(t, p), c) /\ RowAt(t, p)[c] = v}
Range(seq) == {seq[i] : i \in 1..Len(seq)}
NoDuplicates(seq) == Cardinality(Range(seq)) = Len(seq)
NonNullValues == InputValues \ {NULL}
PrimaryKeyColumns(t) == {i \in 1..Len(t.schema) : t.schema[i].PrimaryKey}
UniqueColumns(t) ==
  {t.schema[i].Name : i \in {k \in 1..Len(t.schema) :
                              t.schema[k].Unique /\ ~t.schema[k].PrimaryKey}}
RequiredColumns(t) ==
  {t.schema[i].Name : i \in {k \in 1..Len(t.schema) :
                              t.schema[k].NotNull \/ t.schema[k].PrimaryKey}}
IsNull(row, c) == ~RowHas(row, c) \/ row[c] = NULL

\* C1: for every index on a column c and every non-null value v, the bucket
\* of v holds exactly the positions p with rows[p][c] = v, each once and
\* none out of range; no bucket exists for null.
IndexMatchesRows(t) ==
  \A c \in DOMAIN t.indexes :
    /\ NULL \notin DOMAIN t.indexes[c]
    /\ \A v \in NonNullValues \cup DOMAIN t.indexes[c] :
         LET bucket == IndexLookup(t.indexes[c], v)
         IN  /\ Range(bucket) = Holders(t, c, v)
             /\ NoDuplicates(bucket)

C1_IndexConsistency == \A name \in DOMAIN tables : IndexMatchesRows(tables[name])

\* A manually created, non-unique index whose bucket holds two positions,
\* reached by a mutation of stored rows.
C1_Witness ==
  /\ "users" \in DOMAIN tables
  /\ "name" \in DOMAIN tables["users"].indexes
  /\ \E v \in DOMAIN tables["users"].indexes["name"] :
       Len(tables["users"].indexes["name"][v]) = 2
  /\ last.op \in {"Update", "Delete"} /\ last.n >= 1

\* C2: on a table with one primary-key column no two stored rows hold the
\* same primary-key value, and no two stored rows hold the same non-null
\* value in a unique column.
UniqueIn(t, c) ==
  \A p, q \in Positions(t) :
    (p # q /\ ~IsNull(RowAt(t, p), c) /\ ~IsNull(RowAt(t, q), c))
      => RowAt(t, p)[c] # RowAt(t, q)[c]

C2_Uniqueness ==
  \A name \in DOMAIN tables :
    LET t == tables[name]
    IN  Cardinality(PrimaryKeyColumns(t)) = 1 =>
          /\ \A p, q \in Positions(t) :
               p # q => RowGet(RowAt(t, p), t.primaryKey)
                          # RowGet(RowAt(t, q), t.primaryKey)
          /\ \A c \in UniqueColumns(t) : UniqueIn(t, c)

\* Two rows are stored and the latest call was refused for a duplicate.
C2_Witness ==
  /\ "users" \in DOMAIN tables
  /\ Len(tables["users"].rows) = 2
  /\ last.op \in {"Insert", "Update"}
  /\ last.err.kind \in {"PrimaryKeyViolation", "UniqueViolation"}

\* What an insert of row meets in t, read off the stored rows.
KeyMissing(t, row) == t.primaryKey # "" /\ ~RowHas(row, t.primaryKey)
KeyDuplicate(t, row) ==
  /\ t.primaryKey # "" /\ RowHas(row, t.primaryKey)
  /\ Holders(t, t.primaryKey, row[t.primaryKey]) # {}
DuplicateIn(t, row, c) == ~IsNull(row, c) /\ Holders(t, c, row[c]) # {}
UniqueDuplicates(t, row) ==
  {k \in 1..Len(t.schema) :
     t.schema[k].Name \in UniqueColumns(t) /\ DuplicateIn(t, row, t.schema[k].Name)}
RequiredNulls(t, row) ==
  {k \in 1..Len(t.schema) :
     t.schema[k].Name \in RequiredColumns(t) /\ IsNull(row, t.schema[k].Name)}
Least(S) == CHOOSE i \in S : \A j \in S : i <= j

\* C3: an Insert whose primary-key value equals that of a stored row fails
\* with PrimaryKeyViolation and leaves rows and indexes unchanged; exactly
\* one row with that key remains.
C3_DuplicateKeyRefused ==
  \A name \in DOMAIN tables : \A row \in RowInputs :
    LET t == tables[name]
        r == DbInsert(tables, name, row)
    IN  KeyDuplicate(t, row) =>
          /\ r.err = ErrPrimaryKeyViolation(t.primaryKey)
          /\ r.tables = tables
          /\ Cardinality(Holders(r.tables[name], t.primaryKey,
                                 row[t.primaryKey])) = 1

C3_Witness ==
  /\ last.op = "Insert" /\ last.err.kind = "PrimaryKeyViolation"
  /\ "users" \in DOMAIN tables /\ Len(tables["users"].rows) >= 1

\* C4 as claimed: an Insert whose non-null value for a unique column equals
\* the value held by a stored row fails with UniqueViolation and leaves rows
\* and indexes unchanged.
C4_Original ==
  \A name \in DOMAIN tables : \A row \in RowInputs :
    LET t == tables[name]
        r == DbInsert(tables, name, row)
    IN  UniqueDuplicates(t, row) # {} =>
          r.err.kind = "UniqueViolation" /\ r.tables = tables

\* C4 amended: such an Insert fails and leaves rows and indexes unchanged;
\* the error is UniqueViolation unless the primary-key phase fails first
\* (MissingRequiredColumn when the row has no primary-key entry,
\* PrimaryKeyViolation when its key is already stored).
C4_UniqueDuplicateRefused ==
  \A name \in DOMAIN tables : \A row \in RowInputs :
    LET t == tables[name]
        r == DbInsert(tables, name, row)
    IN  UniqueDuplicates(t, row) # {} =>
          /\ r.tables = tables
          /\ r.err = IF KeyMissing(t, row)
                     THEN ErrMissingRequiredColumn(t.primaryKey)
                     ELSE IF KeyDuplicate(t, row)
                     THEN ErrPrimaryKeyViolation(t.primaryKey)
                     ELSE ErrUniqueViolation(
                            t.schema[Least(UniqueDuplicates(t, row))].Name)

C4_Witness ==
  /\ last.op = "Insert" /\ last.err = ErrUniqueViolation("email")
  /\ "users" \in DOMAIN tables /\ Len(tables["users"].rows) >= 1

\* C5: an Insert of an otherwise valid row that omits, or sets to null, a
\* unique column that is not not-null succeeds, whatever number of stored
\* rows omit or hold null in that column.
ValidApartFrom(t, row, c) ==
  /\ ~KeyMissing(t, row) /\ ~KeyDuplicate(t, row)
  /\ RequiredNulls(t, row) = {}
  /\ \A u \in UniqueColumns(t) \ {c} : ~DuplicateIn(t, row, u)

C5_NullNeverDuplicate ==
  \A name \in DOMAIN tables : \A row \in RowInputs :
    LET t == tables[name]
        r == DbInsert(tables, name, row)
    IN  \A c \in UniqueColumns(t) \ RequiredColumns(t) :
          (IsNull(row, c) /\ ValidApartFrom(t, row, c)) =>
            /\ r.err = NoErr
            /\ r.tables[name].rows = Append(t.rows, row)

\* A second row without an email was inserted beside one holding an explicit
\* null.
C5_Witness ==
  /\ last.op = "Insert" /\ last.err = NoErr
  /\ "users" \in DOMAIN tables /\ Len(tables["users"].rows) = 2
  /\ RowHas(tables["users"].rows[1], "email")
  /\ \A i \in 1..2 : IsNull(tables["users"].rows[i], "email")

\* C6 as claimed: an Insert of a row whose value for a not-null or
\* primary-key column is absent or null fails with MissingRequiredColumn and
\* stores no row.
C6_Original ==
  \A name \in DOMAIN tables : \A row \in RowInputs :
    LET t == tables[name]
        r == DbInsert(tables, name, row)
    IN  RequiredNulls(t, row) # {} =>
          r.err.kind = "MissingRequiredColumn" /\ r.tables = tables

\* C6 amended: such an Insert fails and stores no row; the error is
\* MissingRequiredColumn unless the row's primary-key value is already stored
\* (PrimaryKeyViolation) or, failing that, one of its unique values is
\* already stored (UniqueViolation).
C6_RequiredColumnRefused ==
  \A name \in DOMAIN tables : \A row \in RowInputs :
    LET t == tables[name]
        r == DbInsert(tables, name, row)
    IN  RequiredNulls(t, row) # {} =>
          /\ r.tables = tables
          /\ r.err = IF KeyMissing(t, row)
                     THEN ErrMissingRequiredColumn(t.primaryKey)
                     ELSE IF KeyDuplicate(t, row)
                     THEN ErrPrimaryKeyViolation(t.primaryKey)
                     ELSE IF UniqueDuplicates(t, row) # {}
                     THEN ErrUniqueViolation(
                            t.schema[Least(UniqueDuplicates(t, row))].Name)
                     ELSE ErrMissingRequiredColumn(
                            t.schema[Least(RequiredNulls(t, row))].Name)

C6_Witness ==
  /\ last.op = "Insert" /\ last.err = ErrMissingRequiredColumn("name")
  /\ "users" \in DOMAIN tables /\ Len(tables["users"].rows) >= 1

\* What an update of oldRow to newRow meets in t, read off the stored rows.
ChangedDuplicates(t, oldRow, newRow) ==
  {k \in 1..Len(t.schema) :
     /\ t.schema[k].Name \in UniqueColumns(t)
     /\ RowGet(oldRow, t.schema[k].Name) # RowGet(newRow, t.schema[k].Name)
     /\ DuplicateIn(t, newRow, t.schema[k].Name)}
ChangedKeyDuplicate(t, oldRow, newRow) ==
  /\ t.primaryKey # ""
  /\ RowGet(oldRow, t.primaryKey) # RowGet(newRow, t.primaryKey)
  /\ DuplicateIn(t, newRow, t.primaryKey)
Matching(t, cond) == {p \in Positions(t) : Matches(RowAt(t, p), cond)}
SetsRequiredNull(t, updates) ==
  \E c \in RequiredColumns(t) : RowHas(updates, c) /\ updates[c] = NULL

\* Not-null invariant: every stored row holds a non-null value in every
\* not-null or primary-key column.
RequiredPresent ==
  \A name \in DOMAIN tables :
    \A p \in Positions(tables[name]) :
      \A c \in RequiredColumns(tables[name]) : ~IsNull(RowAt(tables[name], p), c)

\* C7 as claimed: the not-null invariant holds, and an Update that would set
\* a not-null or primary-key column of a row to null fails with
\* MissingRequiredColumn and leaves that row unchanged.
C7_Original ==
  /\ RequiredPresent
  /\ \A name \in DOMAIN tables : \A uc \in UpdateInputs :
       LET t == tables[name]
           r == DbUpdate(tables, name, uc[1], uc[2])
       IN  (SetsRequiredNull(t, uc[1]) /\ Matching(t, uc[2]) # {}) =>
             /\ r.err.kind = "MissingRequiredColumn"
             /\ LET p == Least(Matching(t, uc[2]))
                IN  RowAt(r.tables[name], p) = RowAt(t, p)

\* C7 amended: the not-null invariant holds, and an Update that would set a
\* not-null or primary-key column of a row to null fails and leaves that row
\* (and the whole table) unchanged; the error is MissingRequiredColumn unless
\* the same update changes the row's primary key to a stored key
\* (PrimaryKeyViolation) or, failing that, a unique column to a stored value
\* (UniqueViolation).
C7_RequiredStaysPresent ==
  /\ RequiredPresent
  /\ \A name \in DOMAIN tables : \A uc \in UpdateInputs :
       LET t == tables[name]
           r == DbUpdate(tables, name, uc[1], uc[2])
       IN  (SetsRequiredNull(t, uc[1]) /\ Matching(t, uc[2]) # {}) =>
             LET p == Least(Matching(t, uc[2]))
                 oldRow == RowAt(t, p)
                 newRow == Overlay(oldRow, uc[1])
             IN  /\ r.n = 0
                 /\ r.tables = tables
                 /\ r.err =
                      IF ChangedKeyDuplicate(t, oldRow, newRow)
                      THEN ErrPrimaryKeyViolation(t.primaryKey)
                      ELSE IF ChangedDuplicates(t, oldRow, newRow) # {}
                      THEN ErrUniqueViolation(
                             t.schema[Least(ChangedDuplicates(t, oldRow, newRow))].Name)
                      ELSE ErrMissingRequiredColumn(
                             t.schema[Least(RequiredNulls(t, newRow))].Name)

\* An Update of stored rows was refused for a required column.
C7_Witness ==
  /\ last.op = "Update" /\ last.err.kind = "MissingRequiredColumn"
  /\ "users" \in DOMAIN tables /\ Len(tables["users"].rows) = 2

\* ------------------------------------------------------ concurrency claims
\* A caller is inside its access to the table contents from its first read
\* of rows or indexes to its last read or write of them.
Accessing(p) ==
  \/ proc[p].op = "Insert" /\ proc[p].pc \in {"addRow", "append", "index"}
  \/ proc[p].op = "Update" /\ proc[p].pc = "Update" /\ proc[p].i > 0
  \/ proc[p].op = "Delete" /\ proc[p].pc = "deleteLoop"
  \/ proc[p].op = "CreateIndex" /\ proc[p].pc \in {"build", "install"}
  \/ proc[p].op = "Select" /\ proc[p].pc = "filter"
Mutating(p) ==
  Accessing(p) /\ proc[p].op \in {"Insert", "Update", "Delete", "CreateIndex"}

\* C8: a row-level mutation holds the writer lock from its first read to its
\* last write of the table contents, so no two callers are inside their
\* access to the table contents together when one of them is a mutation.
C8_Original ==
  /\ \A p \in Procs : Mutating(p) => lock.writer = p
  /\ \A p, q \in Procs : (p # q /\ Mutating(p)) => ~Accessing(q)

\* C9: under concurrent Insert and Update calls no two stored rows hold the
\* same primary-key value or the same non-null value in a unique column, and
\* of the concurrent Inserts with one primary-key value at most one returns
\* ok.
C9_Original ==
  (\A p \in Procs : proc[p].op \in {"none", "Insert", "Update"}) =>
    /\ UniqueIn(Table, Table.primaryKey)
    /\ \A c \in UniqueColumns(Table) : UniqueIn(Table, c)
    /\ \A p, q \in Procs :
         ( /\ p # q
           /\ proc[p].op = "Insert" /\ proc[q].op = "Insert"
           /\ proc[p].row["id"] = proc[q].row["id"]
           /\ At(p, "done") /\ At(q, "done") )
         => (proc[p].err # NoErr \/ proc[q].err # NoErr)

\* C10: whenever a Select is about to read the table while an Insert, Update
\* or Delete is the other caller, every index agrees with the row storage.
C10_Original ==
  \A p, q \in Procs :
    ( /\ proc[p].op = "Select" /\ proc[p].pc \in {"Select", "filter"}
      /\ proc[q].op \in {"Insert", "Update", "Delete"} )
    => IndexMatchesRows(Table)

\* ------------------------------------------------------------ query claims
QueryValues == InputValues \cup {IntV(k) : k \in 1..MaxKey}
SchemaColumns(t) == {t.schema[i].Name : i \in 1..Len(t.schema)}
WithIndex(t, c) == IF c \in DOMAIN t.indexes THEN t ELSE TableCreateIndex(t, c)
WithoutIndex(t, c) == [t EXCEPT !.indexes = [k \in DOMAIN @ \ {c} |-> @[k]]]
SelectAll(t, cond) == SelectResults(t, SelectCandidates(t, cond), <<>>, cond)

\* C11: for every table state and every condition with operator = (any
\* column, any value including nil) Select returns the same set of rows with
\* an index on the condition's column as without one.
C11_Original ==
  \A name \in DOMAIN tables :
    \A c \in SchemaColumns(tables[name]) : \A v \in QueryValues :
      Range(SelectAll(WithIndex(tables[name], c), Cond(c, "=", v)))
        = Range(SelectAll(WithoutIndex(tables[name], c), Cond(c, "=", v)))

\* C12: after a successful Insert of row into a table with a primary key, a
\* Select of every column with primary key = the row's key returns exactly
\* one row, equal to the inserted row.
C12_RoundTrip ==
  \A name \in DOMAIN tables : \A row \in QueryRows(name) :
    LET t == tables[name]
        r == DbInsert(tables, name, row)
    IN  (t.primaryKey # "" /\ r.err = NoErr) =>
          LET s == DbSelect(r.tables, name, <<>>,
                            Cond(t.primaryKey, "=", row[t.primaryKey]))
          IN  s.err = NoErr /\ s.n = 1 /\ s.out = <<row>>

\* An Insert into a table that already held two rows has succeeded, and the
\* Select on its key returns it.
C12_Witness ==
  /\ last.op = "Insert" /\ last.err = NoErr
  /\ Len(tables["posts"].rows) = 3
  /\ LET row == tables["posts"].rows[3]
     IN  DbSelect(tables, "posts", <<>>, Cond("id", "=", row["id"])).out = <<row>>

\* C13: Delete removes exactly the rows present at the start of the call
\* that satisfy the condition (all rows for a nil condition) and returns
\* their number N; a following unconditional Select returns
\* originalCount - N rows, none of which satisfies the condition.
Satisfying(t, cond) == {p \in Positions(t) : Matches(RowAt(t, p), cond)}
C13_DeleteExact ==
  \A name \in DOMAIN tables : \A cond \in QueryConds :
    LET t == tables[name]
        r == DbDelete(tables, name, cond)
        s == DbSelect(r.tables, name, <<>>, NoCond)
    IN  /\ r.err = NoErr
        /\ r.n = Cardinality(Satisfying(t, cond))
        /\ Len(r.tables[name].rows) = Len(t.rows) - r.n
        /\ Range(r.tables[name].rows)
             = {RowAt(t, p) : p \in Positions(t) \ Satisfying(t, cond)}
        /\ s.n = Len(t.rows) - r.n
        /\ \A k \in 1..s.n : ~Matches(s.out[k], cond)
        /\ \A other \in DOMAIN tables \ {name} : r.tables[other] = tables[other]

\* A Delete has removed two of three stored rows and kept the third.
C13_Witness ==
  /\ last.op = "Delete" /\ last.err = NoErr /\ last.n = 2
  /\ Len(tables["posts"].rows) = 1

\* C14: InnerJoin(A, B, {x, y}) returns exactly one output row for every
\* pair (a, b) of a stored A row and a stored B row with a.x non-null and
\* a.x = b.y, and no other rows; an A row whose x is null or absent
\* contributes none; the output is grouped in A's storage order.
Partners(A, B, jc, p) ==
  IF IsNull(RowAt(A, p), jc.LeftColumn) THEN {}
  ELSE Holders(B, jc.RightColumn, RowAt(A, p)[jc.LeftColumn])
GroupStart(A, B, jc, p) ==
  LET RECURSIVE before(_)
      before(k) == IF k = 0 THEN 0
                   ELSE before(k - 1) + Cardinality(Partners(A, B, jc, k - 1))
  IN  before(p)
JoinInputsValid ==
  {j \in JoinInputs : /\ j[1] \in DOMAIN tables /\ j[2] \in DOMAIN tables
                      /\ hasColumn(tables[j[1]], j[3].LeftColumn)
                      /\ hasColumn(tables[j[2]], j[3].RightColumn)}
C14_JoinCorrect ==
  \A j \in JoinInputsValid :
    LET A == tables[j[1]]
        B == tables[j[2]]
        r == DbInnerJoin(tables, j[1], j[2], j[3], <<>>)
    IN  /\ r.err = NoErr
        /\ r.n = GroupStart(A, B, j[3], Len(A.rows))
        /\ \A p \in Positions(A) :
             LET qs == Partners(A, B, j[3], p)
                 start == GroupStart(A, B, j[3], p)
             IN  \E f \in [1..Cardinality(qs) -> qs] :
                   /\ \A k1, k2 \in DOMAIN f : k1 # k2 => f[k1] # f[k2]
                   /\ \A k \in DOMAIN f :
                        r.out[start + k]
                          = mergeRows(RowAt(A, p), RowAt(B, f[k]), j[1], j[2])

\* A join of users with posts has returned two rows for one user while a
\* stored post has a nil user_id.
C14_Witness ==
  /\ last.op = "InnerJoin" /\ last.err = NoErr /\ last.n >= 2
  /\ Len(tables["users"].rows) >= 1
  /\ Cardinality(Holders(tables["posts"], "user_id", IntV(1))) = 2
  /\ \E p \in Positions(tables["posts"]) :
       RowHas(RowAt(tables["posts"], p), "user_id")
         /\ RowAt(tables["posts"], p)["user_id"] = NULL

\* C15: every key of every InnerJoin output row is leftTable.column or
\* rightTable.column, also when no column names collide; with a non-empty
\* selectColumns the output row holds exactly the requested names present in
\* the merged row, otherwise the whole merged row.
QualifiedKeys(table) ==
  IF table = "posts" THEN {"posts.id", "posts.user_id", "posts.title"}
  ELSE {"users.id", "users.name"}
C15_QualifiedKeys ==
  \A j \in JoinInputsValid : \A cols \in JoinColumns :
    LET full == DbInnerJoin(tables, j[1], j[2], j[3], <<>>)
        r == DbInnerJoin(tables, j[1], j[2], j[3], cols)
    IN  /\ r.n = full.n
        /\ \A k \in 1..r.n :
             /\ DOMAIN r.out[k] \subseteq QualifiedKeys(j[1]) \cup QualifiedKeys(j[2])
             /\ DOMAIN full.out[k] \cap QualifiedKeys(j[1]) # {}
             /\ DOMAIN full.out[k] \cap QualifiedKeys(j[2]) # {}
             /\ DOMAIN r.out[k] = IF Len(cols) = 0 THEN DOMAIN full.out[k]
                                  ELSE Range(cols) \cap DOMAIN full.out[k]
             /\ \A c \in DOMAIN r.out[k] : r.out[k][c] = full.out[k][c]

\* A join of posts with users, which share only the column name id, has
\* returned rows, also under the projection.
C15_Witness ==
  /\ last.op = "InnerJoin" /\ last.err = NoErr /\ last.n >= 1
  /\ LET r == DbInnerJoin(tables, "posts", "users",
                          JoinCondition("user_id", "id"),
                          <<"posts.id", "users.name", "title">>)
     IN  r.n >= 1 /\ DOMAIN r.out[1] = {"posts.id", "users.name"}

\* C16: after a Delete, also one that relocates the last stored row into a
\* vacated position and also after earlier swap-removes, a Select with = on
\* a remaining row's indexed value returns that row exactly once, and the
\* index references the row at its new position only.
Times(seq, x) == Cardinality({k \in 1..Len(seq) : seq[k] = x})
Relocated(before, after) ==
  {p \in Positions(after) :
     \E q \in Positions(before) : q # p /\ RowAt(before, q) = RowAt(after, p)}
IndexedOnceAt(t, p) ==
  \A c \in DOMAIN t.indexes :
    ~IsNull(RowAt(t, p), c) =>
      /\ Times(SelectAll(t, Cond(c, "=", RowAt(t, p)[c])), RowAt(t, p)) = 1
      /\ Times(IndexLookup(t.indexes[c], RowAt(t, p)[c]), p) = 1
      /\ \A v \in DOMAIN t.indexes[c] :
           /\ p \in Range(t.indexes[c][v]) => v = RowAt(t, p)[c]
           /\ Range(t.indexes[c][v]) \subseteq Positions(t)
C16_SwapRemoveKeepsIndex ==
  \A name \in DOMAIN tables : \A cond \in QueryConds :
    LET after == DbDelete(tables, name, cond).tables[name]
    IN  \A p \in Positions(after) : IndexedOnceAt(after, p)

\* A Delete has left two posts with the same indexed user_id, and a further
\* Delete relocates the last of them.
C16_Witness ==
  /\ last.op = "Delete" /\ last.err = NoErr /\ last.n = 1
  /\ "user_id" \in DOMAIN tables["posts"].indexes
  /\ Len(tables["posts"].rows) = 2
  /\ Cardinality(Holders(tables["posts"], "user_id", IntV(1))) = 2
  /\ \E cond \in QueryConds :
       Relocated(tables["posts"], DbDelete(tables, "posts", cond).tables["posts"]) # {}

\* ----------------------------------------------------------- update claims
\* C17: when validation fails for the row at position i during an Update,
\* Update returns the error with the number of rows already updated in this
\* call; the rows updated earlier keep their new values and the indexes
\* reflect them; the row at position i and every later row are unchanged.
FailedAt(t, cond, n) ==
  CHOOSE i \in Satisfying(t, cond) :
    Cardinality({p \in Satisfying(t, cond) : p < i}) = n
C17_PartialUpdateKept ==
  \A name \in DOMAIN tables : \A uc \in UpdateInputs :
    LET t == tables[name]
        r == DbUpdate(tables, name, uc[1], uc[2])
        after == r.tables[name]
    IN  r.err # NoErr =>
          /\ r.n < Cardinality(Satisfying(t, uc[2]))
          /\ Len(after.rows) = Len(t.rows)
          /\ \A p \in Positions(t) :
               RowAt(after, p) =
                 IF p < FailedAt(t, uc[2], r.n) /\ p \in Satisfying(t, uc[2])
                 THEN Overlay(RowAt(t, p), uc[1])
                 ELSE RowAt(t, p)
          /\ ValidateUpdate(after, RowAt(t, FailedAt(t, uc[2], r.n)),
                            Overlay(RowAt(t, FailedAt(t, uc[2], r.n)), uc[1]))
               = r.err
          /\ IndexMatchesRows(after)

\* An Update has changed one row and then failed on a later one.
C17_Witness ==
  /\ last.op = "Update" /\ last.err # NoErr /\ last.n = 1
  /\ "users" \in DOMAIN tables /\ Len(tables["users"].rows) = 2

\* What Update(updates, cond) would give the row at position p of t.
WouldDuplicate(t, p, updates) ==
  ChangedDuplicates(t, RowAt(t, p), Overlay(RowAt(t, p), updates)) # {}
WouldDuplicateKey(t, p, updates) ==
  ChangedKeyDuplicate(t, RowAt(t, p), Overlay(RowAt(t, p), updates))
IndexEntriesKept(before, after, p) ==
  \A c \in DOMAIN before.indexes : \A v \in NonNullValues :
    (p \in Range(IndexLookup(after.indexes[c], v)))
      <=> (p \in Range(IndexLookup(before.indexes[c], v)))

\* C18 as claimed: an Update that would give a row a unique-column value
\* held by a different stored row fails with UniqueViolation, one that would
\* give it a primary-key value held by a different stored row fails with
\* PrimaryKeyViolation, and the row and its index entries are unchanged.
C18_Original ==
  \A name \in DOMAIN tables : \A uc \in UpdateInputs :
    LET t == tables[name]
        r == DbUpdate(tables, name, uc[1], uc[2])
    IN  \A p \in Matching(t, uc[2]) :
          /\ WouldDuplicate(t, p, uc[1]) => r.err.kind = "UniqueViolation"
          /\ WouldDuplicateKey(t, p, uc[1]) => r.err.kind = "PrimaryKeyViolation"
          /\ (WouldDuplicate(t, p, uc[1]) \/ WouldDuplicateKey(t, p, uc[1])) =>
               /\ RowAt(r.tables[name], p) = RowAt(t, p)
               /\ IndexEntriesKept(t, r.tables[name], p)

\* C18 amended: such an Update fails and leaves that row and its index
\* entries unchanged.  When the row is the first one the Update reaches, the
\* whole table is unchanged and the error is PrimaryKeyViolation if the
\* changed key is held by another row, else UniqueViolation for the first
\* such unique column in schema order; a later row can also be refused by an
\* earlier row's error of another kind.
C18_DuplicateUpdateRefused ==
  \A name \in DOMAIN tables : \A uc \in UpdateInputs :
    LET t == tables[name]
        r == DbUpdate(tables, name, uc[1], uc[2])
    IN  \A p \in Matching(t, uc[2]) :
          (WouldDuplicate(t, p, uc[1]) \/ WouldDuplicateKey(t, p, uc[1])) =>
            /\ r.err # NoErr
            /\ RowAt(r.tables[name], p) = RowAt(t, p)
            /\ IndexEntriesKept(t, r.tables[name], p)
            /\ p = Least(Matching(t, uc[2])) =>
                 /\ r.n = 0 /\ r.tables = tables
                 /\ r.err =
                      IF WouldDuplicateKey(t, p, uc[1])
                      THEN ErrPrimaryKeyViolation(t.primaryKey)
                      ELSE ErrUniqueViolation(
                             t.schema[Least(ChangedDuplicates(t, RowAt(t, p),
                                        Overlay(RowAt(t, p), uc[1])))].Name)

\* An Update of the first of two stored rows was refused for a key held by
\* the other.
C18_Witness ==
  /\ last.op = "Update" /\ last.n = 0
  /\ last.err = ErrPrimaryKeyViolation("id")
  /\ "users" \in DOMAIN tables /\ Len(tables["users"].rows) = 2

\* C19: a row is compatible with itself.  An Update whose new rows keep the
\* primary-key value and every unique-column value of the old rows never
\* fails with PrimaryKeyViolation or UniqueViolation; an Update that assigns
\* every matched row the values it already holds succeeds, counts every
\* matched row and leaves rows and indexes unchanged.
KeepsKeys(t, oldRow, newRow) ==
  /\ t.primaryKey # "" => RowGet(oldRow, t.primaryKey) = RowGet(newRow, t.primaryKey)
  /\ \A c \in UniqueColumns(t) : RowGet(oldRow, c) = RowGet(newRow, c)
DuplicateKinds == {"PrimaryKeyViolation", "UniqueViolation"}
C19_SelfCompatible ==
  \A name \in DOMAIN tables : \A uc \in UpdateInputs :
    LET t == tables[name]
        r == DbUpdate(tables, name, uc[1], uc[2])
    IN  /\ \A p \in Positions(t) :
             KeepsKeys(t, RowAt(t, p), Overlay(RowAt(t, p), uc[1])) =>
               ValidateUpdate(t, RowAt(t, p), Overlay(RowAt(t, p), uc[1])).kind
                 \notin DuplicateKinds
        /\ (\A p \in Matching(t, uc[2]) :
              KeepsKeys(t, RowAt(t, p), Overlay(RowAt(t, p), uc[1])))
             => r.err.kind \notin DuplicateKinds
        /\ (\A p \in Matching(t, uc[2]) : Overlay(RowAt(t, p), uc[1]) = RowAt(t, p))
             => /\ r.err = NoErr
                /\ r.n = Cardinality(Matching(t, uc[2]))
                /\ r.tables = tables

\* An Update has counted both stored rows, and writing the name they hold
\* to both of them again changes nothing.
C19_Witness ==
  /\ last.op = "Update" /\ last.err = NoErr /\ last.n = 2
  /\ "users" \in DOMAIN tables /\ Len(tables["users"].rows) = 2
  /\ \A p \in Positions(tables["users"]) :
       RowGet(RowAt(tables["users"], p), "name") = IntV(1)
  /\ DbUpdate(tables, "users", ("name" :> IntV(1)), NoCond).n = 2

\* ----------------------------------------------------------- insert errors
\* C20: an Insert returns exactly one error, chosen by phase order: the
\* primary-key phase (key absent, then key already stored) before any
\* UniqueViolation, any UniqueViolation before a MissingRequiredColumn of a
\* not-null column; within the unique phase and within the not-null phase
\* the first violating column in schema order is reported.
ExpectedInsertError(t, row) ==
  IF KeyMissing(t, row) THEN ErrMissingRequiredColumn(t.primaryKey)
  ELSE IF KeyDuplicate(t, row) THEN ErrPrimaryKeyViolation(t.primaryKey)
  ELSE IF UniqueDuplicates(t, row) # {}
  THEN ErrUniqueViolation(t.schema[Least(UniqueDuplicates(t, row))].Name)
  ELSE IF RequiredNulls(t, row) # {}
  THEN ErrMissingRequiredColumn(t.schema[Least(RequiredNulls(t, row))].Name)
  ELSE NoErr
C20_ErrorOrder ==
  \A name \in DOMAIN tables : \A row \in ConstraintsRows :
    LET t == tables[name]
        r == DbInsert(tables, name, row)
    IN  /\ r.err = ExpectedInsertError(t, row)
        /\ r.err # NoErr => r.tables = tables /\ r.n = 0
        /\ r.err = NoErr => r.n = 1

\* An Insert was refused for the first of two unique columns while a stored
\* row exists against which a row can violate every phase at once.
C20_Witness ==
  /\ last.op = "Insert" /\ last.err = ErrUniqueViolation("username")
  /\ \E row \in ConstraintsRows :
       /\ Cardinality(UniqueDuplicates(tables["users"], row)) = 2
       /\ RequiredNulls(tables["users"], row) # {}

\* ------------------------------------------------------- registry and keys
\* C21: on a table with a primary key, an Insert of a row whose key is
\* absent or null fails with MissingRequiredColumn for the key column,
\* whatever the other columns hold, also when another column duplicates a
\* stored unique value.
C21_Original ==
  \A name \in DOMAIN tables : \A row \in RowInputs :
    LET t == tables[name]
        r == DbInsert(tables, name, row)
    IN  (t.primaryKey # "" /\ IsNull(row, t.primaryKey)) =>
          /\ r.err = ErrMissingRequiredColumn(t.primaryKey)
          /\ r.tables = tables


\* C22: CreateTable with a registered name fails with TableAlreadyExists and
\* leaves the registry as it was, the registered table with its schema, rows
\* and indexes included; with a new name it leaves the other entries alone
\* and registers an empty table with the given schema and an empty index for
\* the primary-key column and for every unique column.
C22_CreateTable ==
  \A name \in RegistryNames : \A schema \in RegistrySchemas :
    LET r == DbCreateTable(tables, name, schema)
    IN  IF name \in DOMAIN tables
        THEN r.err = ErrTableAlreadyExists(name) /\ r.tables = tables
        ELSE /\ r.err = NoErr
             /\ DOMAIN r.tables = DOMAIN tables \cup {name}
             /\ \A k \in DOMAIN tables : r.tables[k] = tables[k]
             /\ r.tables[name].name = name
             /\ r.tables[name].schema = schema
             /\ r.tables[name].rows = <<>>
             /\ \A i \in DOMAIN schema :
                  (schema[i].PrimaryKey \/ schema[i].Unique) =>
                    /\ schema[i].Name \in DOMAIN r.tables[name].indexes
                    /\ r.tables[name].indexes[schema[i].Name] = NewIndex

\* CreateTable has just been refused for a name whose table holds rows,
\* while the other name is free.
C22_Witness ==
  /\ last.op = "CreateTable"
  /\ last.err.kind = "TableAlreadyExists"
  /\ last.err.table \in DOMAIN tables
  /\ tables[last.err.table].rows # <<>>
  /\ RegistryNames \ DOMAIN tables # {}

\* C23: every entry point called with a name that is not registered returns
\* TableNotFound for that name and leaves the registry as it was; InnerJoin
\* does so whichever side the name is on.  A successful DropTable removes
\* the name, and a name that is not registered stays so until a CreateTable
\* succeeds.
C23_NotFound ==
  /\ [](\A name \in RegistryNames \ DOMAIN tables :
         LET nf(r) == r.err = ErrTableNotFound(name) /\ r.tables = tables
         IN  /\ nf(DbGetTable(tables, name))
             /\ DbGetTable(tables, name).table = NoTable
             /\ nf(DbDropTable(tables, name))
             /\ \A row \in RegistryRows : nf(DbInsert(tables, name, row))
             /\ \A c \in RegistryConds :
                  /\ nf(DbSelect(tables, name, <<>>, c))
                  /\ DbSelect(tables, name, <<>>, c).out = <<>>
                  /\ nf(DbDelete(tables, name, c))
                  /\ \A u \in RegistryUpdates : nf(DbUpdate(tables, name, u, c))
             /\ \A j \in RegistryJoins :
                  LET r == DbInnerJoin(tables, j[1], j[2], j[3], <<>>)
                  IN  /\ j[1] = name => nf(r) /\ r.out = <<>>
                      /\ (j[2] = name /\ j[1] \in DOMAIN tables) =>
                           nf(r) /\ r.out = <<>>)
  /\ [](\A name \in DOMAIN tables :
         LET r == DbDropTable(tables, name)
         IN  /\ r.err = NoErr
             /\ DOMAIN r.tables = DOMAIN tables \ {name}
             /\ \A k \in DOMAIN r.tables : r.tables[k] = tables[k])
  /\ [][\A name \in RegistryNames :
          /\ (name \notin DOMAIN tables /\ name \in DOMAIN tables') =>
               last' = [op |-> "CreateTable", err |-> NoErr, n |-> 0]
          /\ (name \in DOMAIN tables /\ name \notin DOMAIN tables') =>
               last' = [op |-> "DropTable", err |-> NoErr, n |-> 0]]_vars

\* A call has just returned TableNotFound for a name that was dropped,
\* while the other table is registered and holds rows.
C23_Witness ==
  /\ last.err.kind = "TableNotFound"
  /\ last.op \in {"Insert", "Select", "Update", "Delete", "InnerJoin", "GetTable"}
  /\ last.err.table \notin DOMAIN tables
  /\ \E k \in DOMAIN tables : tables[k].rows # <<>>

\* C24: no registered table has a schema that flags more than one column as
\* primary key, and the table's primary-key column is the flagged one.
C24_Original ==
  \A name \in DOMAIN tables :
    LET t == tables[name]
        flagged == {i \in DOMAIN t.schema : t.schema[i].PrimaryKey}
    IN  /\ Cardinality(flagged) <= 1
        /\ \A i \in flagged : t.schema[i].Name = t.primaryKey


\* ------------------------------------------------------ ordering and order
Orderable(a, b) ==
  (a.t = "int" /\ b.t = "int") \/ (a.t = "string" /\ b.t = "string")

\* C25: under >, <, >= and <=, Select returns no row whose value is not
\* orderable with the condition's value (not both integers or both strings),
\* and no stored row satisfies both > and <=, or both < and >=, against the
\* same value.
C25_Original ==
  \A name \in DOMAIN tables :
    /\ \A cond \in OrderingConds :
         LET r == DbSelect(tables, name, <<>>, cond)
         IN  \A i \in DOMAIN r.out :
               Orderable(RowGet(r.out[i], cond.Column), cond.Value)
    /\ \A p \in DOMAIN tables[name].rows : \A v \in AgeValues :
         LET row == tables[name].rows[p]
             sat(op) == evaluateCondition(row, Cond("age", op, v))
         IN  ~(sat(">") /\ sat("<=")) /\ ~(sat("<") /\ sat(">="))


\* C26: Select of every column returns its rows in storage order: the rows
\* returned are the stored rows among them in ascending position, whether
\* the candidates come from a full scan or from an index bucket.  (Stored
\* rows differ in their primary key, so a returned row names its position.)
C26_Original ==
  \A name \in DOMAIN tables : \A cond \in QueryConds :
    LET out == DbSelect(tables, name, <<>>, cond).out
    IN  out = SelectSeq(tables[name].rows, LAMBDA row : row \in Range(out))

\* C27: a Select with an empty column list returns stored rows as they are,
\* in the positions Select visits; a Select with a column list returns, for
\* each of those rows, exactly the requested columns the row has, with the
\* stored values.
ProjectionColumns ==
  SelectColumns \cup {<<"id">>, <<"title", "id">>, <<"user_id", "user_id">>,
                      <<"missing">>}
C27_Projection ==
  \A name \in DOMAIN tables : \A cond \in QueryConds :
    LET t == tables[name]
        cand == SelectCandidates(t, cond)
        visited == SelectSeq(cand, LAMBDA p : Matches(RowAt(t, p), cond))
        full == DbSelect(tables, name, <<>>, cond).out
    IN  /\ full = [i \in DOMAIN visited |-> RowAt(t, visited[i])]
        /\ \A columns \in ProjectionColumns \ {<<>>} :
             LET out == DbSelect(tables, name, columns, cond).out
             IN  /\ Len(out) = Len(full)
                 /\ \A i \in DOMAIN out :
                      /\ DOMAIN out[i] = Range(columns) \cap DOMAIN full[i]
                      /\ \A c \in DOMAIN out[i] : out[i][c] = full[i][c]

\* A Select has returned two rows of posts, one of which has no user_id.
C27_Witness ==
  /\ last.op = "Select" /\ last.err = NoErr /\ last.n >= 2
  /\ Len(tables["posts"].rows) = last.n
  /\ \E p \in Positions(tables["posts"]) :
       ~RowHas(RowAt(tables["posts"], p), "user_id")


\* ---------------------------------------------------------- index creation
\* C28: CreateIndex on a column that is not in the schema fails with
\* ColumnNotFound and changes nothing; on a column that has an index it
\* succeeds and changes nothing; otherwise it adds one index, on that
\* column, whose buckets hold exactly the positions of the rows with that
\* non-null value, and rows and other indexes stay as they were.  After it,
\* every Insert, Update and Delete leaves the index in place and every index
\* in agreement with the rows.
C28_CreateIndex ==
  \A name \in DOMAIN tables : \A col \in IndexColumns :
    LET t == tables[name]
        r == DbCreateIndex(tables, name, col)
        t2 == r.tables[name]
        kept(db) == col \in DOMAIN db[name].indexes /\ IndexMatchesRows(db[name])
    IN  IF col \notin SchemaColumns(t)
        THEN r.err = ErrColumnNotFound(col) /\ r.tables = tables
        ELSE IF col \in DOMAIN t.indexes
        THEN r.err = NoErr /\ r.tables = tables
        ELSE /\ r.err = NoErr
             /\ DOMAIN r.tables = DOMAIN tables
             /\ t2.rows = t.rows /\ t2.schema = t.schema
             /\ DOMAIN t2.indexes = DOMAIN t.indexes \cup {col}
             /\ \A c \in DOMAIN t.indexes : t2.indexes[c] = t.indexes[c]
             /\ NULL \notin DOMAIN t2.indexes[col]
             /\ \A v \in NonNullValues \cup DOMAIN t2.indexes[col] :
                  /\ Range(IndexLookup(t2.indexes[col], v)) = Holders(t, col, v)
                  /\ NoDuplicates(IndexLookup(t2.indexes[col], v))
             /\ \A row \in RowInputs : kept(DbInsert(r.tables, name, row).tables)
             /\ \A uc \in UpdateInputs :
                  kept(DbUpdate(r.tables, name, uc[1], uc[2]).tables)
             /\ \A c \in CondInputs : kept(DbDelete(r.tables, name, c).tables)

\* CreateIndex has just returned and the index on name holds one bucket with
\* the positions of two rows that share a name.
C28_Witness ==
  /\ last.op = "CreateIndex" /\ last.err = NoErr
  /\ "users" \in DOMAIN tables
  /\ "name" \in DOMAIN tables["users"].indexes
  /\ \E v \in DOMAIN tables["users"].indexes["name"] :
       Len(tables["users"].indexes["name"][v]) = 2


\* ------------------------------------------------------------- join errors
\* C29: InnerJoin returns TableNotFound for the left table when it is not
\* registered, else for the right table when that one is not; else
\* ColumnNotFound for the left join column when the left schema lacks it,
\* else for the right join column when the right schema lacks it; else it
\* succeeds.  With an error it returns no rows, and it never changes the
\* registry.
ExpectedJoinError(j) ==
  IF j[1] \notin DOMAIN tables THEN ErrTableNotFound(j[1])
  ELSE IF j[2] \notin DOMAIN tables THEN ErrTableNotFound(j[2])
  ELSE IF j[3].LeftColumn \notin SchemaColumns(tables[j[1]])
  THEN ErrColumnNotFound(j[3].LeftColumn)
  ELSE IF j[3].RightColumn \notin SchemaColumns(tables[j[2]])
  THEN ErrColumnNotFound(j[3].RightColumn)
  ELSE NoErr
C29_JoinErrors ==
  \A j \in RegistryJoins :
    LET r == DbInnerJoin(tables, j[1], j[2], j[3], <<>>)
    IN  /\ r.err = ExpectedJoinError(j)
        /\ r.tables = tables
        /\ r.err # NoErr => r.out = <<>> /\ r.n = 0

\* A join of two registered tables that hold rows with equal ids has been
\* refused for its left column.
C29_Witness ==
  /\ last.op = "InnerJoin"
  /\ last.err = ErrColumnNotFound("missing")
  /\ DOMAIN tables = RegistryNames
  /\ \A name \in RegistryNames :
       Holders(tables[name], "id", IntV(1)) # {}


\* ------------------------------------------------------- join and writers
\* C30: when an InnerJoin that ran beside a writer returns, its rows are the
\* join of the two tables as the database stood at one of the instants
\* between the join's call and its return.
C30_Original ==
  (proc[Joiner].pc = "done" /\ proc[Joiner].err = NoErr) =>
    \E db \in proc[Joiner].seen :
      proc[Joiner].out = DbInnerJoin(db, JoinLeft, JoinRight, JoinOn, <<>>).out


\* -------------------------------------------------------- index contents
\* C31: no index of a reachable table has an entry for nil or an empty
\* bucket.  On every such index Add of nil changes nothing, Remove of the
\* only position of a value deletes the value's entry and Remove of one of
\* several keeps the others, Lookup and Has of nil or of a value without an
\* entry return nothing and false; and a Delete of every row leaves every
\* index of the table empty.
C31_NoNullNoEmptyBucket ==
  \A name \in DOMAIN tables :
    /\ \A c \in DOMAIN tables[name].indexes :
         LET data == tables[name].indexes[c]
         IN  /\ NULL \notin DOMAIN data
             /\ \A v \in DOMAIN data : Len(data[v]) > 0
             /\ \A p \in 0..MaxRows : IndexAdd(data, NULL, p) = data
             /\ \A p \in 0..MaxRows : IndexRemove(data, NULL, p) = data
             /\ \A v \in DOMAIN data : \A p \in Range(data[v]) :
                  LET after == IndexRemove(data, v, p)
                  IN  IF Range(data[v]) = {p}
                      THEN DOMAIN after = DOMAIN data \ {v}
                      ELSE /\ DOMAIN after = DOMAIN data
                           /\ Range(after[v]) = Range(data[v]) \ {p}
             /\ IndexLookup(data, NULL) = <<>>
             /\ ~IndexHas(data, NULL)
             /\ \A v \in InputValues \ DOMAIN data :
                  IndexLookup(data, v) = <<>> /\ ~IndexHas(data, v)
    /\ LET r == DbDelete(tables, name, NoCond)
       IN  /\ r.err = NoErr
           /\ r.n = Len(tables[name].rows)
           /\ r.tables[name].rows = <<>>
           /\ DOMAIN r.tables[name].indexes = DOMAIN tables[name].indexes
           /\ \A c \in DOMAIN r.tables[name].indexes :
                DOMAIN r.tables[name].indexes[c] = {}

\* A Delete has just removed both rows of a table that has an index on
\* name beside its key and unique indexes.
C31_Witness ==
  /\ last.op = "Delete" /\ last.err = NoErr /\ last.n = 2
  /\ "users" \in DOMAIN tables
  /\ tables["users"].rows = <<>>
  /\ "name" \in DOMAIN tables["users"].indexes


\* C32: for every primary-key or unique column and every value, nil
\* included, the existence check answers the same with the column's index
\* as it would by scanning the rows without it.
C32_Original ==
  \A name \in DOMAIN tables :
    LET t == tables[name]
        has(tt, c, v) == IF c = tt.primaryKey THEN hasPrimaryKeyValue(tt, v)
                         ELSE hasUniqueValue(tt, c, v)
    IN  \A c \in ({t.primaryKey} \ {""}) \cup UniqueColumns(t) :
          \A v \in InputValues :
            has(t, c, v) = has(WithoutIndex(t, c), c, v)


\* ------------------------------------------------- join paths and output
BagOf(seq) ==
  [x \in Range(seq) |-> Cardinality({i \in DOMAIN seq : seq[i] = x})]

\* C33: for every join of two tables InnerJoin returns the same rows, each
\* as many times, with an index on the right table's join column as without
\* one.
C33_JoinPathsAgree ==
  \A j \in JoinInputsValid : \A cols \in JoinColumns :
    LET rc == j[3].RightColumn
        indexed == [tables EXCEPT ![j[2]] = WithIndex(@, rc)]
        scanned == [tables EXCEPT ![j[2]] = WithoutIndex(@, rc)]
        a == DbInnerJoin(indexed, j[1], j[2], j[3], cols)
        b == DbInnerJoin(scanned, j[1], j[2], j[3], cols)
    IN  /\ a.err = NoErr /\ b.err = NoErr
        /\ a.n = b.n
        /\ BagOf(a.out) = BagOf(b.out)

\* A join has returned rows while the user_id index of posts lists the two
\* posts of one user in descending position and a user is stored: the join
\* of users with posts reads that bucket.
C33_Witness ==
  /\ last.op = "InnerJoin" /\ last.err = NoErr /\ last.n >= 2
  /\ "user_id" \in DOMAIN tables["posts"].indexes
  /\ IntV(1) \in DOMAIN tables["posts"].indexes["user_id"]
  /\ tables["posts"].indexes["user_id"][IntV(1)] = <<1, 0>>
  /\ Holders(tables["users"], "id", IntV(1)) # {}


\* ------------------------------------------------------------ row frames
\* C34: deleteRow(p) on a table of n rows leaves n-1 rows, the previous rows
\* without the one that was at p, each as many times as before; every row
\* at a position other than p and n-1 stays where it was, and when p is not
\* the last position the row that was last is at p.
C34_SwapRemoveFrame ==
  \A name \in DOMAIN tables : \A p \in Positions(tables[name]) :
    LET t == tables[name]
        n == Len(t.rows)
        t2 == deleteRow(t, p)
        rest == [k \in 1..(n - 1) |-> IF k < p + 1 THEN t.rows[k]
                                    ELSE t.rows[k + 1]]
    IN  /\ Len(t2.rows) = n - 1
        /\ BagOf(t2.rows) = BagOf(rest)
        /\ \A q \in Positions(t) \ {p, n - 1} : RowAt(t2, q) = RowAt(t, q)
        /\ p # n - 1 => RowAt(t2, p) = RowAt(t, n - 1)

\* A Delete has removed the first of three posts: the post inserted last is
\* at position 0 and the second post kept position 1.
C34_Witness ==
  /\ last.op = "Delete" /\ last.err = NoErr /\ last.n = 1
  /\ Len(tables["posts"].rows) = 2
  /\ RowAt(tables["posts"], 0)["id"] = IntV(3)
  /\ RowAt(tables["posts"], 1)["id"] = IntV(2)


\* C35: an Update leaves the number of rows and every row's position as they
\* were.  It goes through the positions upwards to the end, or to the first
\* matching row it refuses: each row before that point that satisfied the
\* condition with the values it had at the call holds the updates and is
\* otherwise as it was, every other row is identical, and the count returned
\* is the number of rows updated.
SameOutside(old, new, columns) ==
  \A c \in (DOMAIN old \cup DOMAIN new) \ columns :
    c \in DOMAIN old /\ c \in DOMAIN new /\ old[c] = new[c]
C35_UpdateFrame ==
  \A name \in DOMAIN tables : \A uc \in UpdateInputs :
    LET t == tables[name]
        n == Len(t.rows)
        r == DbUpdate(tables, name, uc[1], uc[2])
        t2 == r.tables[name]
        hit(p) == Matches(RowAt(t, p), uc[2])
    IN  /\ Len(t2.rows) = n
        /\ \E f \in 0..n :
             /\ IF r.err = NoErr THEN f = n ELSE f < n /\ hit(f)
             /\ r.n = Cardinality({p \in 0..(f - 1) : hit(p)})
             /\ \A p \in Positions(t) :
                  IF p < f /\ hit(p)
                  THEN /\ \A c \in DOMAIN uc[1] :
                            RowHas(RowAt(t2, p), c) /\ RowAt(t2, p)[c] = uc[1][c]
                       /\ SameOutside(RowAt(t, p), RowAt(t2, p), DOMAIN uc[1])
                  ELSE RowAt(t2, p) = RowAt(t, p)

\* An Update has changed one of two stored rows.
C35_Witness ==
  /\ last.op = "Update" /\ last.err = NoErr /\ last.n = 1
  /\ "users" \in DOMAIN tables
  /\ Len(tables["users"].rows) = 2
  /\ RowGet(RowAt(tables["users"], 0), "name")
       # RowGet(RowAt(tables["users"], 1), "name")


\* ------------------------------------------------------------- aliasing
\* C36: a write by the caller to a row it holds, the row it passed to a
\* successful Insert or a row returned by Select or InnerJoin, changes no
\* stored row and no index, and so nothing a later Select returns.
C36_Original ==
  [][proc'[Caller].did \in {"SetHeld", "SetGot"} => tables' = tables]_vars


\* C37: without selectColumns every InnerJoin output row is made of one left
\* row and one matching right row: it has the key leftTable.c with the left
\* row's value for each column c of the left row, the key rightTable.c with
\* the right row's value for each column c of the right row, and as many
\* keys as the two rows have columns together, also when a table is joined
\* with itself.
C37_Original ==
  \A j \in JoinInputsValid :
    LET A == tables[j[1]]
        B == tables[j[2]]
        r == DbInnerJoin(tables, j[1], j[2], j[3], <<>>)
    IN  \A k \in 1..r.n :
          \E p \in Positions(A) : \E q \in Partners(A, B, j[3], p) :
            LET l == RowAt(A, p)
                rr == RowAt(B, q)
                o == r.out[k]
            IN  /\ \A c \in DOMAIN l :
                     /\ QualifiedName(j[1], c) \in DOMAIN o
                     /\ o[QualifiedName(j[1], c)] = l[c]
                /\ \A c \in DOMAIN rr :
                     /\ QualifiedName(j[2], c) \in DOMAIN o
                     /\ o[QualifiedName(j[2], c)] = rr[c]
                /\ Cardinality(DOMAIN o)
                     = Cardinality(DOMAIN l) + Cardinality(DOMAIN rr)


\* ------------------------------------------------------------ termination
\* C38: under a fair lock and scheduler every call that has been made
\* returns, and a caller that has returned holds the lock neither as writer
\* nor as reader.
C38_Original ==
  \A p \in Procs :
    /\ [](proc[p].pc # "idle" => <>(proc[p].pc = "done"))
    /\ [](proc[p].pc = "done" => lock.writer # p /\ p \notin lock.readers)

====
